---- MODULE Spec2Model ----
(***************************************************************************)
(* Geometry memoization of the WEBGL primitives of p5.js                   *)
(* (src/webgl/3d_primitives.js): the shape builders, the post-processing   *)
(* of a p5.Geometry and the renderer's geometry hash.                      *)
(*                                                                         *)
(* Conventions.  Indices stored in faces, strokeIndices and edges are the  *)
(* 0-based indices of the JavaScript arrays; At(s, i) reads s[i].          *)
(* Coordinates are exact: a number is a fraction <<n, d>> in lowest terms  *)
(* (Rat), and a coordinate that the code computes with sin/cos is kept as  *)
(* the exact parameters of its formula (named where it is built).          *)
(***************************************************************************)
EXTENDS Integers, Sequences, FiniteSets, TLC

VARIABLES cache, uMVMatrix, lastCall, created, calls, http, table

vars == <<cache, uMVMatrix, lastCall, created, calls, http, table>>

(***************************************************************************)
(* Values                                                                  *)
(***************************************************************************)
\* An optional argument is the empty set when the caller left it out
\* (typeof x === 'undefined') and {v} when the caller passed v.
undefined == {}

Some(v) == {v}

IsUndefined(x) == x = {}

Val(x) == CHOOSE v \in x : TRUE

Abs(n) == IF n < 0 THEN -n ELSE n

Min(a, b) == IF a <= b THEN a ELSE b

Max(a, b) == IF a >= b THEN a ELSE b

\* the recursive operators hand a value computed at one level to the next
\* as a bound variable (r \in {value}), so that it is computed once
RECURSIVE GCD(_, _)
GCD(a, b) ==
  IF b = 0 THEN a ELSE CHOOSE g \in {GCD(b, r) : r \in {a % b}} : TRUE

\* the number n/d; d = 0 gives what JavaScript gives: NaN (0/0) or +-Infinity
Rat(n, d) ==
  IF d = 0 THEN <<(IF n > 0 THEN 1 ELSE IF n < 0 THEN -1 ELSE 0), 0>>
  ELSE LET s == IF d < 0 THEN -1 ELSE 1
       IN CHOOSE q \in {<<(s * n) \div g, (s * d) \div g>> :
                         g \in {GCD(Abs(n), Abs(d))}} : TRUE

At(s, i) == s[i + 1]

\* the array with the elements s[1], ..., s[Len(s)], each computed once
Array(s) == SubSeq(s, 1, Len(s))

\* array.push(x)
Push(s, x) == Append(s, x)

\* the concatenation of the sequences ss[lo], ..., ss[hi] (taken by halves,
\* which keeps the evaluation shallow)
RECURSIVE FlattenRange(_, _, _)
FlattenRange(ss, lo, hi) ==
  IF lo > hi THEN <<>>
  ELSE IF lo = hi THEN ss[lo]
  ELSE CHOOSE all \in
         {FlattenRange(ss, lo, mid) \o FlattenRange(ss, mid + 1, hi) :
            mid \in {(lo + hi) \div 2}} : TRUE

\* the concatenation of the sequences of a sequence
Flatten(ss) == FlattenRange(ss, 1, Len(ss))

\* for (i = lo; i <= hi; i++) st = body(st, env, i), where LoopBody(step, ...)
\* is the body of the loop that step names and env holds what the body reads
\* and does not change; the range is halved so that the evaluation nests
\* to the logarithm of its length
RECURSIVE LoopBody(_, _, _, _)
RECURSIVE Loop(_, _, _, _, _)
Loop(step, st, env, lo, hi) ==
  IF lo > hi THEN st
  ELSE IF lo = hi THEN LoopBody(step, st, env, lo)
  ELSE CHOOSE end \in
         UNION {{Loop(step, left, env, mid + 1, hi) :
                   left \in {Loop(step, st, env, lo, mid)}} :
                mid \in {(lo + hi) \div 2}} : TRUE

(***************************************************************************)
(* p5.Geometry: the mesh under construction.  The class is not part of     *)
(* the sources at hand; its fields and methods follow the specification's  *)
(* data model (Mesh) and components (NormalComputer, EdgeExtractor).       *)
(***************************************************************************)
\* new p5.Geometry(detailX, detailY): empty arrays, no strokeIndices.
\* uvs holds the texture coordinates of the icosphere, whose builder reads
\* them back; those that the other builders push are not kept (nothing
\* reads them).
NewGeometry(detailX, detailY) ==
  [detailX |-> detailX, detailY |-> detailY,
   vertices |-> <<>>, faces |-> <<>>, vertexNormals |-> <<>>,
   hasStrokeIndices |-> FALSE, strokeIndices |-> <<>>,
   edges |-> <<>>, lineVertices |-> <<>>, uvs |-> <<>>]

\* computeFaces: the grid-to-triangle rule; cell (i, j) of a grid of
\* detailX+1 columns gives (a, b, d) and (d, b, c)
computeFaces(g) ==
  LET sliceCount == g.detailX + 1
      cells == IF g.detailX > 0 /\ g.detailY > 0 THEN g.detailX * g.detailY ELSE 0
      cell(n) ==
        LET i == (n - 1) \div g.detailX
            j == (n - 1) % g.detailX
            a == i * sliceCount + j
            b == i * sliceCount + j + 1
            c == (i + 1) * sliceCount + j + 1
            d == (i + 1) * sliceCount + j
        IN <<(<<a, b, d>>), (<<d, b, c>>)>>
  IN [g EXCEPT !.faces = Flatten([n \in 1..cells |-> cell(n)])]

\* computeNormals: one normal per vertex, the normalized sum of the normals
\* of the faces incident to it.  The normal is kept as the set of those
\* faces (their 0-based indices), which determines it.
AddIncident(normals, faces, f) ==
  LET face == At(faces, f)
  IN [normals EXCEPT ![face[1] + 1].averaged = @ \cup {f},
                     ![face[2] + 1].averaged = @ \cup {f},
                     ![face[3] + 1].averaged = @ \cup {f}]

computeNormals(g) ==
  [g EXCEPT !.vertexNormals =
     Loop("AddIncident", Array([n \in 1..Len(g.vertices) |-> [averaged |-> {}]]),
          g.faces, 0, Len(g.faces) - 1)]

\* the undirected pair of a directed one
Undirected(e) == <<Min(e[1], e[2]), Max(e[1], e[2])>>

\* the three sides of every face, in face order
FaceSides(faces) ==
  Array([n \in 1..(3 * Len(faces)) |->
     LET f == faces[((n - 1) \div 3) + 1]
         q == (n - 1) % 3
     IN <<f[q + 1], f[((q + 1) % 3) + 1]>>])

\* one side: kept unless its undirected pair was seen before
KeepSide(st, s, n) ==
  IF Undirected(s[n]) \in st.seen THEN st
  ELSE [seen |-> st.seen \cup {Undirected(s[n])}, kept |-> Append(st.kept, s[n])]

\* s without the entries whose undirected pair occurred before
DistinctSides(s) ==
  Loop("KeepSide", [seen |-> {}, kept |-> <<>>], s, 1, Len(s)).kept

\* _makeTriangleEdges: the stroke edges of the mesh.  A builder's
\* strokeIndices are taken as they are; otherwise every side of every face,
\* a side shared by two faces once.
_makeTriangleEdges(g) ==
  [g EXCEPT !.edges = IF g.hasStrokeIndices THEN g.strokeIndices
                      ELSE DistinctSides(FaceSides(g.faces))]

\* _edgesToVertices: the line vertices, the two end positions of each edge
\* (reading a vertex that does not exist gives undefined)
_edgesToVertices(g) ==
  LET pos(i) == IF 0 <= i /\ i < Len(g.vertices) THEN Some(At(g.vertices, i))
                ELSE undefined
  IN [g EXCEPT !.lineVertices =
        Array([n \in 1..Len(g.edges) |->
                 <<pos(g.edges[n][1]), pos(g.edges[n][2])>>])]

(***************************************************************************)
(* The builders.  Each takes the geometry it fills (the JavaScript this)   *)
(* and the variables of the enclosing call that its closure reads.         *)
(***************************************************************************)
\* Grid with the rows i < detailY only
GridWithoutLastRow(detailX, detailY) ==
  LET n == IF detailX >= 0 /\ detailY >= 0 THEN (detailX + 1) * detailY ELSE 0
  IN Array([k \in 1..n |-> <<(k - 1) \div (detailX + 1), (k - 1) % (detailX + 1)>>])

\* the (detailX+1) x (detailY+1) grid points, row by row: <<i, j>> with i
\* over the rows 0..detailY and j over the columns 0..detailX
Grid(detailX, detailY) ==
  LET n == IF detailX >= 0 /\ detailY >= 0 THEN (detailX + 1) * (detailY + 1) ELSE 0
  IN Array([k \in 1..n |-> <<(k - 1) \div (detailX + 1), (k - 1) % (detailX + 1)>>])

\* _plane: the vertex (u - 0.5, v - 0.5, 0), u = j/detailX, v = i/detailY
_plane(g) ==
  LET cells == Grid(g.detailX, g.detailY)
      p(i, j) == <<Rat(2 * j - g.detailX, 2 * g.detailX),
                   Rat(2 * i - g.detailY, 2 * g.detailY),
                   Rat(0, 1)>>
  IN [g EXCEPT !.vertices = Array([k \in DOMAIN cells |-> p(cells[k][1], cells[k][2])])]

\* the corners with the first face listed row by row instead of column by
\* column
cubeIndicesByRow ==
  <<(<<0, 2, 4, 6>>), (<<1, 3, 5, 7>>), (<<0, 1, 4, 5>>),
    (<<2, 6, 3, 7>>), (<<0, 2, 1, 3>>), (<<4, 5, 6, 7>>)>>

\* the corner of each of the four vertices of each of the six faces
cubeIndices ==
  <<(<<0, 4, 2, 6>>), (<<1, 3, 5, 7>>), (<<0, 1, 4, 5>>),
    (<<2, 6, 3, 7>>), (<<0, 2, 1, 3>>), (<<4, 5, 6, 7>>)>>

\* bit b (0, 1, 2) of d
Bit(d, b) == (d \div (IF b = 0 THEN 1 ELSE IF b = 1 THEN 2 ELSE 4)) % 2

\* the octant corner with the bits of x and y exchanged
OctantMirrored(d) ==
  <<Rat(2 * Bit(d, 1) - 1, 2), Rat(Bit(d, 0) * 2 - 1, 2),
    Rat((4 * Bit(d, 2)) \div 2 - 1, 2)>>

\* the octant corner d: (((d & 1) * 2 - 1) / 2, ((d & 2) - 1) / 2,
\* ((d & 4) / 2 - 1) / 2)
Octant(d) ==
  <<Rat(Bit(d, 0) * 2 - 1, 2), Rat(2 * Bit(d, 1) - 1, 2),
    Rat((4 * Bit(d, 2)) \div 2 - 1, 2)>>

\* _box: 24 vertices, 12 faces, and the stroke list of the cube's edges
_box(g) ==
  [g EXCEPT
     !.hasStrokeIndices = TRUE,
     !.strokeIndices =
        <<(<<0, 1>>), (<<1, 3>>), (<<3, 2>>), (<<6, 7>>), (<<8, 9>>),
          (<<9, 11>>), (<<14, 15>>), (<<16, 17>>), (<<17, 19>>),
          (<<18, 19>>), (<<20, 21>>), (<<22, 23>>)>>,
     !.vertices =
        [k \in 1..(4 * Len(cubeIndices)) |->
           Octant(cubeIndices[((k - 1) \div 4) + 1][((k - 1) % 4) + 1])],
     !.faces =
        Flatten([i \in 1..Len(cubeIndices) |->
                   LET v == (i - 1) * 4
                   IN <<(<<v, v + 1, v + 2>>), (<<v + 2, v + 1, v + 3>>)>>])]

\* _ellipsoid: the vertex (cos(phi) sin(theta), sin(phi), cos(phi) cos(theta))
\* with phi = pi v - pi/2 and theta = 2 pi u, kept as [u, v]; the normal is
\* the vertex itself
_ellipsoid(g) ==
  LET cells == Grid(g.detailX, g.detailY)
      p(i, j) == [u |-> Rat(j, g.detailX), v |-> Rat(i, g.detailY)]
      pts == Array([k \in DOMAIN cells |-> p(cells[k][1], cells[k][2])])
  IN [g EXCEPT !.vertices = pts, !.vertexNormals = pts]

\* _torus: with phi = 2 pi v, theta = 2 pi u and r = 1 + tubeRatio cos(phi),
\* the vertex (r cos(theta), r sin(theta), tubeRatio sin(phi)), kept as
\* [u, v, ratio], and the normal (cos(phi) cos(theta), cos(phi) sin(theta),
\* sin(phi)), kept as [u, v]
_torus(g, tubeRatio) ==
  LET cells == Grid(g.detailX, g.detailY)
      p(i, j) == [u |-> Rat(j, g.detailX), v |-> Rat(i, g.detailY),
                  ratio |-> tubeRatio]
      n(i, j) == [u |-> Rat(j, g.detailX), v |-> Rat(i, g.detailY)]
  IN [g EXCEPT !.vertices = Array([k \in DOMAIN cells |-> p(cells[k][1], cells[k][2])]),
               !.vertexNormals = Array([k \in DOMAIN cells |-> n(cells[k][1], cells[k][2])])]

\* _truncatedCone with one ring for each cap, its centre, and no rim ring
_truncatedConeNoRim(g, bottomRadius0, topRadius0, height0, detailX0, detailY0, bottomCap0, topCap0) ==
  LET bottomRadius == IF bottomRadius0 <= 0 THEN 1 ELSE bottomRadius0
      topRadius == IF topRadius0 < 0 THEN 0 ELSE topRadius0
      height == IF height0 <= 0 THEN bottomRadius ELSE height0
      detailX == IF detailX0 < 3 THEN 3 ELSE detailX0
      detailY == IF detailY0 < 1 THEN 1 ELSE detailY0
      bottomCap == IF IsUndefined(bottomCap0) THEN TRUE ELSE Val(bottomCap0)
      topCap == IF IsUndefined(topCap0) THEN topRadius # 0 ELSE Val(topCap0)
      start == IF bottomCap THEN -1 ELSE 0
      end == detailY + (IF topCap THEN 1 ELSE 0)
      slant == <<bottomRadius - topRadius, height>>
      ringRadius(yy) ==
        IF yy = -1 \/ yy = detailY + 1 THEN Rat(0, 1)
        ELSE IF yy < 0 THEN Rat(bottomRadius, 1)
        ELSE IF yy > detailY THEN Rat(topRadius, 1)
        ELSE Rat(bottomRadius * detailY + (topRadius - bottomRadius) * yy, detailY)
      y(yy) ==
        IF yy < 0 THEN Rat(-height, 2)
        ELSE IF yy > detailY THEN Rat(height, 2)
        ELSE Rat(2 * height * yy - height * detailY, 2 * detailY)
      vertsOnLayer(yy) == IF ringRadius(yy)[1] = 0 THEN 1 ELSE detailX
      layers == [k \in 1..(end - start + 1) |-> start + k - 1]
      ringVertices(yy) ==
        [k \in 1..vertsOnLayer(yy) |->
           [u |-> Rat(k - 1, detailX), r |-> ringRadius(yy), y |-> y(yy)]]
      ringNormals(yy) ==
        [k \in 1..vertsOnLayer(yy) |->
           IF yy < 0 THEN [part |-> "bottom", u |-> Rat(0, 1), slant |-> <<0, 1>>]
           ELSE IF yy > detailY THEN [part |-> "top", u |-> Rat(0, 1), slant |-> <<0, 1>>]
           ELSE [part |-> "side", u |-> Rat(k - 1, detailX), slant |-> slant]]
      bottomFaces ==
        IF bottomCap
        THEN [k \in 1..vertsOnLayer(-1) |->
                LET jj == k - 1
                    nextjj == (jj + 1) % vertsOnLayer(-1)
                IN <<0, 0 + 1 + nextjj, 0 + 1 + jj>>]
        ELSE <<>>
      startIndex[yy \in 0..detailY] ==
        IF yy = 0
        THEN (IF bottomCap THEN vertsOnLayer(-2) + vertsOnLayer(-1) ELSE 0)
        ELSE startIndex[yy - 1] + vertsOnLayer(yy - 1)
      sideFaces(yy) ==
        Flatten([k \in 1..vertsOnLayer(yy) |->
          LET ii == k - 1
              nextii == (ii + 1) % vertsOnLayer(yy)
              si == startIndex[yy]
          IN IF vertsOnLayer(yy + 1) = 1
             THEN <<(<<si + ii, si + nextii, si + vertsOnLayer(yy)>>)>>
             ELSE <<(<<si + ii, si + nextii, si + vertsOnLayer(yy) + nextii>>),
                    (<<si + ii, si + vertsOnLayer(yy) + nextii,
                       si + vertsOnLayer(yy) + ii>>)>>])
      topFaces ==
        IF topCap
        THEN [k \in 1..vertsOnLayer(detailY + 1) |->
                LET ii == k - 1
                    nextii == (ii + 1) % vertsOnLayer(detailY + 1)
                    si == startIndex[detailY] + vertsOnLayer(detailY)
                IN <<si + ii, si + nextii, si + vertsOnLayer(detailY + 1)>>]
        ELSE <<>>
  IN [g EXCEPT
        !.vertices = g.vertices \o Flatten([k \in 1..Len(layers) |-> ringVertices(layers[k])]),
        !.vertexNormals = g.vertexNormals \o Flatten([k \in 1..Len(layers) |-> ringNormals(layers[k])]),
        !.faces = g.faces \o bottomFaces
                  \o Flatten([k \in 1..detailY |-> sideFaces(k - 1)])
                  \o topFaces]

\* _truncatedCone without the line detailX = detailX < 3 ? 3 : detailX
_truncatedConeUnclamped(g, bottomRadius0, topRadius0, height0, detailX0, detailY0, bottomCap0, topCap0) ==
  LET bottomRadius == IF bottomRadius0 <= 0 THEN 1 ELSE bottomRadius0
      topRadius == IF topRadius0 < 0 THEN 0 ELSE topRadius0
      height == IF height0 <= 0 THEN bottomRadius ELSE height0
      detailX == detailX0
      detailY == IF detailY0 < 1 THEN 1 ELSE detailY0
      bottomCap == IF IsUndefined(bottomCap0) THEN TRUE ELSE Val(bottomCap0)
      topCap == IF IsUndefined(topCap0) THEN topRadius # 0 ELSE Val(topCap0)
      start == IF bottomCap THEN -2 ELSE 0
      end == detailY + (IF topCap THEN 2 ELSE 0)
      slant == <<bottomRadius - topRadius, height>>
      ringRadius(yy) ==
        IF yy = -2 \/ yy = detailY + 2 THEN Rat(0, 1)
        ELSE IF yy < 0 THEN Rat(bottomRadius, 1)
        ELSE IF yy > detailY THEN Rat(topRadius, 1)
        ELSE Rat(bottomRadius * detailY + (topRadius - bottomRadius) * yy, detailY)
      y(yy) ==
        IF yy < 0 THEN Rat(-height, 2)
        ELSE IF yy > detailY THEN Rat(height, 2)
        ELSE Rat(2 * height * yy - height * detailY, 2 * detailY)
      vertsOnLayer(yy) == IF ringRadius(yy)[1] = 0 THEN 1 ELSE detailX
      layers == [k \in 1..(end - start + 1) |-> start + k - 1]
      ringVertices(yy) ==
        [k \in 1..vertsOnLayer(yy) |->
           [u |-> Rat(k - 1, detailX), r |-> ringRadius(yy), y |-> y(yy)]]
      ringNormals(yy) ==
        [k \in 1..vertsOnLayer(yy) |->
           IF yy < 0 THEN [part |-> "bottom", u |-> Rat(0, 1), slant |-> <<0, 1>>]
           ELSE IF yy > detailY THEN [part |-> "top", u |-> Rat(0, 1), slant |-> <<0, 1>>]
           ELSE [part |-> "side", u |-> Rat(k - 1, detailX), slant |-> slant]]
      bottomFaces ==
        IF bottomCap
        THEN [k \in 1..vertsOnLayer(-1) |->
                LET jj == k - 1
                    nextjj == (jj + 1) % vertsOnLayer(-1)
                IN <<0, 0 + 1 + nextjj, 0 + 1 + jj>>]
        ELSE <<>>
      startIndex[yy \in 0..detailY] ==
        IF yy = 0
        THEN (IF bottomCap THEN vertsOnLayer(-2) + vertsOnLayer(-1) ELSE 0)
        ELSE startIndex[yy - 1] + vertsOnLayer(yy - 1)
      sideFaces(yy) ==
        Flatten([k \in 1..vertsOnLayer(yy) |->
          LET ii == k - 1
              nextii == (ii + 1) % vertsOnLayer(yy)
              si == startIndex[yy]
          IN IF vertsOnLayer(yy + 1) = 1
             THEN <<(<<si + ii, si + nextii, si + vertsOnLayer(yy)>>)>>
             ELSE <<(<<si + ii, si + nextii, si + vertsOnLayer(yy) + nextii>>),
                    (<<si + ii, si + vertsOnLayer(yy) + nextii,
                       si + vertsOnLayer(yy) + ii>>)>>])
      topFaces ==
        IF topCap
        THEN [k \in 1..vertsOnLayer(detailY + 1) |->
                LET ii == k - 1
                    nextii == (ii + 1) % vertsOnLayer(detailY + 1)
                    si == startIndex[detailY] + vertsOnLayer(detailY)
                IN <<si + ii, si + nextii, si + vertsOnLayer(detailY + 1)>>]
        ELSE <<>>
  IN [g EXCEPT
        !.vertices = g.vertices \o Flatten([k \in 1..Len(layers) |-> ringVertices(layers[k])]),
        !.vertexNormals = g.vertexNormals \o Flatten([k \in 1..Len(layers) |-> ringNormals(layers[k])]),
        !.faces = g.faces \o bottomFaces
                  \o Flatten([k \in 1..detailY |-> sideFaces(k - 1)])
                  \o topFaces]

\* _truncatedCone: the rings of a cylinder or cone, bottom to top.  A vertex
\* (sin(2 pi u) r, y, cos(2 pi u) r) is kept as [u, r, y]; a normal as its
\* part (the bottom cap's (0, -1, 0), the top cap's (0, 1, 0), or the side's
\* (sin(2 pi u) cos(slant), sin(slant), cos(2 pi u) cos(slant)) with
\* slant = atan2(slant[1], slant[2])).
_truncatedCone(g, bottomRadius0, topRadius0, height0, detailX0, detailY0, bottomCap0, topCap0) ==
  LET bottomRadius == IF bottomRadius0 <= 0 THEN 1 ELSE bottomRadius0
      topRadius == IF topRadius0 < 0 THEN 0 ELSE topRadius0
      height == IF height0 <= 0 THEN bottomRadius ELSE height0
      detailX == IF detailX0 < 3 THEN 3 ELSE detailX0
      detailY == IF detailY0 < 1 THEN 1 ELSE detailY0
      bottomCap == IF IsUndefined(bottomCap0) THEN TRUE ELSE Val(bottomCap0)
      topCap == IF IsUndefined(topCap0) THEN topRadius # 0 ELSE Val(topCap0)
      start == IF bottomCap THEN -2 ELSE 0
      end == detailY + (IF topCap THEN 2 ELSE 0)
      slant == <<bottomRadius - topRadius, height>>
      ringRadius(yy) ==
        IF yy = -2 \/ yy = detailY + 2 THEN Rat(0, 1)
        ELSE IF yy < 0 THEN Rat(bottomRadius, 1)
        ELSE IF yy > detailY THEN Rat(topRadius, 1)
        ELSE Rat(bottomRadius * detailY + (topRadius - bottomRadius) * yy, detailY)
      y(yy) ==
        IF yy < 0 THEN Rat(-height, 2)
        ELSE IF yy > detailY THEN Rat(height, 2)
        ELSE Rat(2 * height * yy - height * detailY, 2 * detailY)
      vertsOnLayer(yy) == IF ringRadius(yy)[1] = 0 THEN 1 ELSE detailX
      layers == [k \in 1..(end - start + 1) |-> start + k - 1]
      ringVertices(yy) ==
        [k \in 1..vertsOnLayer(yy) |->
           [u |-> Rat(k - 1, detailX), r |-> ringRadius(yy), y |-> y(yy)]]
      ringNormals(yy) ==
        [k \in 1..vertsOnLayer(yy) |->
           IF yy < 0 THEN [part |-> "bottom", u |-> Rat(0, 1), slant |-> <<0, 1>>]
           ELSE IF yy > detailY THEN [part |-> "top", u |-> Rat(0, 1), slant |-> <<0, 1>>]
           ELSE [part |-> "side", u |-> Rat(k - 1, detailX), slant |-> slant]]
      bottomFaces ==
        IF bottomCap
        THEN [k \in 1..vertsOnLayer(-1) |->
                LET jj == k - 1
                    nextjj == (jj + 1) % vertsOnLayer(-1)
                IN <<0, 0 + 1 + nextjj, 0 + 1 + jj>>]
        ELSE <<>>
      startIndex[yy \in 0..detailY] ==
        IF yy = 0
        THEN (IF bottomCap THEN vertsOnLayer(-2) + vertsOnLayer(-1) ELSE 0)
        ELSE startIndex[yy - 1] + vertsOnLayer(yy - 1)
      sideFaces(yy) ==
        Flatten([k \in 1..vertsOnLayer(yy) |->
          LET ii == k - 1
              nextii == (ii + 1) % vertsOnLayer(yy)
              si == startIndex[yy]
          IN IF vertsOnLayer(yy + 1) = 1
             THEN <<(<<si + ii, si + nextii, si + vertsOnLayer(yy)>>)>>
             ELSE <<(<<si + ii, si + nextii, si + vertsOnLayer(yy) + nextii>>),
                    (<<si + ii, si + vertsOnLayer(yy) + nextii,
                       si + vertsOnLayer(yy) + ii>>)>>])
      topFaces ==
        IF topCap
        THEN [k \in 1..vertsOnLayer(detailY + 1) |->
                LET ii == k - 1
                    nextii == (ii + 1) % vertsOnLayer(detailY + 1)
                    si == startIndex[detailY] + vertsOnLayer(detailY)
                IN <<si + ii, si + nextii, si + vertsOnLayer(detailY + 1)>>]
        ELSE <<>>
  IN [g EXCEPT
        !.vertices = g.vertices \o Flatten([k \in 1..Len(layers) |-> ringVertices(layers[k])]),
        !.vertexNormals = g.vertexNormals \o Flatten([k \in 1..Len(layers) |-> ringNormals(layers[k])]),
        !.faces = g.faces \o bottomFaces
                  \o Flatten([k \in 1..detailY |-> sideFaces(k - 1)])
                  \o topFaces]

\* _triangle: the unit right triangle and its three sides
_triangle(g) ==
  [g EXCEPT
     !.vertices = <<(<<Rat(0, 1), Rat(0, 1), Rat(0, 1)>>),
                    (<<Rat(0, 1), Rat(1, 1), Rat(0, 1)>>),
                    (<<Rat(1, 1), Rat(0, 1), Rat(0, 1)>>)>>,
     !.hasStrokeIndices = TRUE,
     !.strokeIndices = <<(<<0, 1>>), (<<1, 2>>), (<<2, 0>>)>>,
     !.faces = <<(<<0, 1, 2>>)>>]

(***************************************************************************)
(* Angles.  An angle <<c, e>> is c * (pi/4) + e * 10^-11 radians, with     *)
(* 0 <= c <= 16 and |e| small: the eighths of a turn that sketches use,    *)
(* and offsets below the tenth decimal.                                    *)
(***************************************************************************)
\* constants.TWO_PI
TWO_PI == <<8, 0>>

\* stop - start
AngleDiff(stop, start) == <<stop[1] - start[1], stop[2] - start[2]>>

\* Math.abs(d) >= constants.TWO_PI
AtLeastFullTurn(d) ==
  \/ d[1] > TWO_PI[1]
  \/ d[1] = TWO_PI[1] /\ d[2] >= 0
  \/ d[1] < -TWO_PI[1]
  \/ d[1] = -TWO_PI[1] /\ d[2] <= 0

\* floor(c * (pi/4) * 10^12) mod 100: the 11th and 12th decimals of c * pi/4
QuarterPiDecimals ==
  <<0, 97, 94, 92, 89, 87, 84, 82, 79, 77, 74, 71, 69, 66, 64, 61, 59>>

\* a.toFixed(10): the decimal string of a rounded to 10 decimals, kept as
\* the eighth of a turn, the rounding of the rest in units of 10^-10 and
\* the sign that the string shows
toFixed10(a) ==
  <<a[1], (QuarterPiDecimals[a[1] + 1] + 10 * a[2] + 50) \div 100,
    a[1] = 0 /\ a[2] < 0>>

\* _arc without the test that start and stop differ
_arcUntested(g, start, stop, mode, detail) ==
  LET centre == IF mode = Some("pie") \/ IsUndefined(mode)
                THEN <<[centre |-> TRUE, theta |-> <<Rat(0, 1), Rat(0, 1)>>]>>
                ELSE <<>>
      npts == IF detail >= 0 THEN detail + 1 ELSE 0
      point(i) ==
        [centre |-> FALSE,
         theta |-> <<Rat(start[1] * detail + (stop[1] - start[1]) * i, detail),
                     Rat(start[2] * detail + (stop[2] - start[2]) * i, detail)>>]
      vertices == g.vertices \o centre \o [k \in 1..npts |-> point(k - 1)]
      nfan == IF detail - 1 > 0 THEN detail - 1 ELSE 0
      fanFaces == [k \in 1..nfan |-> <<0, (k - 1) + 1, (k - 1) + 2>>]
      fanStrokes == [k \in 1..nfan |-> <<(k - 1) + 1, (k - 1) + 2>>]
      n == Len(vertices)
      lastFace == <<(<<0, n - 2, n - 1>>)>>
  IN [g EXCEPT
        !.vertices = vertices,
        !.hasStrokeIndices = TRUE,
        !.faces =
           g.faces \o fanFaces \o
           (IF mode = Some("pie") THEN lastFace
            ELSE IF mode = Some("chord") \/ mode = Some("open") THEN <<>>
            ELSE lastFace),
        !.strokeIndices =
           fanStrokes \o
           (IF mode = Some("pie")
            THEN <<(<<0, 1>>), (<<n - 2, n - 1>>), (<<0, n - 1>>)>>
            ELSE IF mode = Some("chord")
            THEN <<(<<0, 1>>), (<<0, n - 1>>)>>
            ELSE IF mode = Some("open")
            THEN <<(<<0, 1>>)>>
            ELSE <<(<<n - 2, n - 1>>)>>)]

\* _arc that closes an OPEN arc with the chord, as it does a CHORD arc
_arcOpenClosed(g, start, stop, mode, detail) ==
  IF toFixed10(start) = toFixed10(stop)
  THEN [g EXCEPT !.hasStrokeIndices = TRUE, !.strokeIndices = <<>>]
  ELSE
    LET centre == IF mode = Some("pie") \/ IsUndefined(mode)
                  THEN <<[centre |-> TRUE, theta |-> <<Rat(0, 1), Rat(0, 1)>>]>>
                  ELSE <<>>
        npts == IF detail >= 0 THEN detail + 1 ELSE 0
        point(i) ==
          [centre |-> FALSE,
           theta |-> <<Rat(start[1] * detail + (stop[1] - start[1]) * i, detail),
                       Rat(start[2] * detail + (stop[2] - start[2]) * i, detail)>>]
        vertices == g.vertices \o centre \o [k \in 1..npts |-> point(k - 1)]
        nfan == IF detail - 1 > 0 THEN detail - 1 ELSE 0
        fanFaces == [k \in 1..nfan |-> <<0, (k - 1) + 1, (k - 1) + 2>>]
        fanStrokes == [k \in 1..nfan |-> <<(k - 1) + 1, (k - 1) + 2>>]
        n == Len(vertices)
        lastFace == <<(<<0, n - 2, n - 1>>)>>
    IN [g EXCEPT
          !.vertices = vertices,
          !.hasStrokeIndices = TRUE,
          !.faces =
             g.faces \o fanFaces \o
             (IF mode = Some("pie") THEN lastFace
              ELSE IF mode = Some("chord") \/ mode = Some("open") THEN <<>>
              ELSE lastFace),
          !.strokeIndices =
             fanStrokes \o
             (IF mode = Some("pie")
              THEN <<(<<0, 1>>), (<<n - 2, n - 1>>), (<<0, n - 1>>)>>
              ELSE IF mode = Some("chord")
              THEN <<(<<0, 1>>), (<<0, n - 1>>)>>
              ELSE IF mode = Some("open")
              THEN <<(<<0, 1>>), (<<0, n - 1>>)>>
              ELSE <<(<<n - 2, n - 1>>)>>)]

\* _arc: detail+1 points on the unit circle scaled to the unit square,
\* (0.5 + cos(theta)/2, 0.5 + sin(theta)/2, 0) with
\* theta = (stop - start) * i/detail + start, kept as the fractions of
\* pi/4 and of 10^-11 in theta; the centre (0.5, 0.5, 0) for PIE and for no
\* mode
_arc(g, start, stop, mode, detail) ==
  IF toFixed10(start) = toFixed10(stop)
  THEN [g EXCEPT !.hasStrokeIndices = TRUE, !.strokeIndices = <<>>]
  ELSE
    LET centre == IF mode = Some("pie") \/ IsUndefined(mode)
                  THEN <<[centre |-> TRUE, theta |-> <<Rat(0, 1), Rat(0, 1)>>]>>
                  ELSE <<>>
        npts == IF detail >= 0 THEN detail + 1 ELSE 0
        point(i) ==
          [centre |-> FALSE,
           theta |-> <<Rat(start[1] * detail + (stop[1] - start[1]) * i, detail),
                       Rat(start[2] * detail + (stop[2] - start[2]) * i, detail)>>]
        vertices == g.vertices \o centre \o [k \in 1..npts |-> point(k - 1)]
        nfan == IF detail - 1 > 0 THEN detail - 1 ELSE 0
        fanFaces == [k \in 1..nfan |-> <<0, (k - 1) + 1, (k - 1) + 2>>]
        fanStrokes == [k \in 1..nfan |-> <<(k - 1) + 1, (k - 1) + 2>>]
        n == Len(vertices)
        lastFace == <<(<<0, n - 2, n - 1>>)>>
    IN [g EXCEPT
          !.vertices = vertices,
          !.hasStrokeIndices = TRUE,
          !.faces =
             g.faces \o fanFaces \o
             (IF mode = Some("pie") THEN lastFace
              ELSE IF mode = Some("chord") \/ mode = Some("open") THEN <<>>
              ELSE lastFace),
          !.strokeIndices =
             fanStrokes \o
             (IF mode = Some("pie")
              THEN <<(<<0, 1>>), (<<n - 2, n - 1>>), (<<0, n - 1>>)>>
              ELSE IF mode = Some("chord")
              THEN <<(<<0, 1>>), (<<0, n - 1>>)>>
              ELSE IF mode = Some("open")
              THEN <<(<<0, 1>>)>>
              ELSE <<(<<n - 2, n - 1>>)>>)]

\* _rect: the grid over the unit square, vertex (u, v, 0), and the four
\* sides of the rectangle as strokes
_rect(g, detailX, detailY) ==
  LET cells == Grid(g.detailX, g.detailY)
      p(i, j) == <<Rat(j, g.detailX), Rat(i, g.detailY), Rat(0, 1)>>
      withVertices == [g EXCEPT !.vertices = Array([k \in DOMAIN cells |-> p(cells[k][1], cells[k][2])])]
  IN IF detailX > 0 /\ detailY > 0
     THEN [withVertices EXCEPT
             !.hasStrokeIndices = TRUE,
             !.strokeIndices =
                <<(<<0, detailX>>),
                  (<<detailX, (detailX + 1) * (detailY + 1) - 1>>),
                  (<<(detailX + 1) * (detailY + 1) - 1, (detailX + 1) * detailY>>),
                  (<<(detailX + 1) * detailY, 0>>)>>]
     ELSE withVertices

\* _quad: the four corner points as they were passed
_quad(g, x1, y1, x2, y2, x3, y3, x4, y4) ==
  [g EXCEPT
     !.vertices = g.vertices \o
        <<(<<Rat(x1, 1), Rat(y1, 1), Rat(0, 1)>>),
          (<<Rat(x2, 1), Rat(y2, 1), Rat(0, 1)>>),
          (<<Rat(x3, 1), Rat(y3, 1), Rat(0, 1)>>),
          (<<Rat(x4, 1), Rat(y4, 1), Rat(0, 1)>>)>>,
     !.hasStrokeIndices = TRUE,
     !.strokeIndices = <<(<<0, 1>>), (<<1, 2>>), (<<2, 3>>), (<<3, 0>>)>>]

(***************************************************************************)
(* p5.Matrix, the renderer's uMVMatrix: 16 numbers, row by row; a point is *)
(* a row vector to the left of the matrix.  The class is not part of the   *)
(* sources at hand; mult, translate and scale compose as the specification *)
(* describes (the new transform applies to the shape first).               *)
(***************************************************************************)
Identity == <<1, 0, 0, 0,  0, 1, 0, 0,  0, 0, 1, 0,  0, 0, 0, 1>>

\* a.mult(b)
MatMult(a, b) ==
  [k \in 1..16 |->
     LET r == (k - 1) \div 4
         c == (k - 1) % 4
     IN a[4 * r + 1] * b[c + 1] + a[4 * r + 2] * b[c + 5]
        + a[4 * r + 3] * b[c + 9] + a[4 * r + 4] * b[c + 13]]

\* m.translate([x, y, z])
MatTranslate(m, x, y, z) ==
  MatMult(<<1, 0, 0, 0,  0, 1, 0, 0,  0, 0, 1, 0,  x, y, z, 1>>, m)

\* m.scale(x, y, z)
MatScale(m, x, y, z) ==
  MatMult(<<x, 0, 0, 0,  0, y, 0, 0,  0, 0, z, 0,  0, 0, 0, 1>>, m)

(***************************************************************************)
(* Number.prototype.toPrecision(4) of the quotient n/d, n and d integers,  *)
(* d # 0, for the quotient 0 and those from 0.001 up to 10000 (excluded):  *)
(* <<sign, m, e>> is the string of sign * m * 10^(e-3), 1000 <= m <= 9999. *)
(***************************************************************************)
Pow10(k) == IF k = 0 THEN 1 ELSE IF k = 1 THEN 10 ELSE IF k = 2 THEN 100
            ELSE IF k = 3 THEN 1000 ELSE IF k = 4 THEN 10000
            ELSE IF k = 5 THEN 100000 ELSE 1000000

toPrecision4(n, d) ==
  LET sign == IF (n < 0) # (d < 0) THEN -1 ELSE 1
      a == Abs(n)
      b == Abs(d)
      \* 10^e <= a/b
      AtLeast(e) == IF e >= 0 THEN a >= b * Pow10(e) ELSE a * Pow10(-e) >= b
      e0 == CHOOSE e \in -3..3 : AtLeast(e) /\ (e = 3 \/ ~AtLeast(e + 1))
      \* a/b * 10^(3-e0), rounded to the nearest integer, halves up
      m0 == (2 * a * Pow10(3 - e0) + b) \div (2 * b)
  IN IF a = 0 THEN <<1, 0, 0>>    \* "0.000"
     ELSE IF m0 = 10000 THEN <<sign, 1000, e0 + 1>> ELSE <<sign, m0, e0>>

(***************************************************************************)
(* The renderer's geometry hash and draw calls.  geometryInHash,           *)
(* createBuffers, drawBuffers and drawBuffersScaled belong to p5.RendererGL*)
(* and are not part of the sources at hand: the hash maps a key to the     *)
(* geometry stored under it, and a draw names the key it draws, the scale  *)
(* it was given and the uMVMatrix in force.                                *)
(***************************************************************************)
\* the number of primitive calls a behaviour makes
MaxCalls == 2

geometryInHash(gId) == gId \in DOMAIN cache

\* createBuffers(gId, geom): store geom under gId
createBuffers(gId, geom) ==
  /\ cache' = [k \in DOMAIN cache \cup {gId} |->
                 IF k = gId THEN geom ELSE cache[k]]
  /\ created' = [k \in DOMAIN created \cup {gId} |->
                   IF k = gId
                   THEN (IF k \in DOMAIN created THEN created[k] + 1 ELSE 1)
                   ELSE created[k]]

drawBuffersScaled(gId, scaleX, scaleY, scaleZ) ==
  [fn |-> "drawBuffersScaled", gId |-> gId,
   scale |-> <<scaleX, scaleY, scaleZ>>, uMVMatrix |-> uMVMatrix]

drawBuffers(gId, matrix) ==
  [fn |-> "drawBuffers", gId |-> gId, scale |-> <<>>, uMVMatrix |-> matrix]

\* what the last call did: its arguments, the key it computed, whether it
\* built a geometry, the draw it issued, whether that draw threw, what the
\* call returned, the uMVMatrix when it was entered
Call(op, args, gId, built, draw, threw, returned, tubeRatio) ==
  [op |-> op, args |-> args, gId |-> gId, built |-> built, draw |-> draw,
   threw |-> threw, returned |-> returned, before |-> uMVMatrix,
   tubeRatio |-> tubeRatio]

\* the value of a call whose draw step may have thrown
Returned(drawThrows, value) == IF drawThrows THEN "nothing" ELSE value

(***************************************************************************)
(* p5.prototype.plane                                                      *)
(***************************************************************************)
\* planeArgs with a default width of 100
planeArgsWideDefault(a) ==
  [width |-> IF IsUndefined(a.width) THEN 100 ELSE Val(a.width),
   height |-> IF IsUndefined(a.height) THEN 50 ELSE Val(a.height),
   detailX |-> IF IsUndefined(a.detailX) THEN 1 ELSE Val(a.detailX),
   detailY |-> IF IsUndefined(a.detailY) THEN 1 ELSE Val(a.detailY)]

\* the arguments after the defaults
planeArgs(a) ==
  LET width == IF IsUndefined(a.width) THEN 50 ELSE Val(a.width)
  IN [width |-> width,
      height |-> IF IsUndefined(a.height) THEN width ELSE Val(a.height),
      detailX |-> IF IsUndefined(a.detailX) THEN 1 ELSE Val(a.detailX),
      detailY |-> IF IsUndefined(a.detailY) THEN 1 ELSE Val(a.detailY)]

\* a key that also carries the width
planeGIdSized(d) == <<"plane", d.detailX, d.detailY, d.width>>

planeGId(d) == <<"plane", d.detailX, d.detailY>>

planeGeom(d) ==
  LET g == computeNormals(computeFaces(_plane(NewGeometry(d.detailX, d.detailY))))
  IN IF d.detailX <= 1 /\ d.detailY <= 1
     THEN _edgesToVertices(_makeTriangleEdges(g))
     ELSE g

\* plane without the geometryInHash test: the geometry is built on every call
planeRebuilds(Requests) ==
  \E a \in Requests, drawThrows \in BOOLEAN :
    LET d == planeArgs(a)
        gId == planeGId(d)
    IN /\ calls < MaxCalls
       /\ calls' = calls + 1
       /\ UNCHANGED <<http, table>>
       /\ createBuffers(gId, planeGeom(d))
       /\ lastCall' = Call("plane", a, Some(gId), TRUE,
                           <<drawBuffersScaled(gId, d.width, d.height, 1)>>,
                           drawThrows, Returned(drawThrows, "this"), undefined)
       /\ UNCHANGED uMVMatrix

plane(Requests) ==
  \E a \in Requests, drawThrows \in BOOLEAN :
    LET d == planeArgs(a)
        gId == planeGId(d)
    IN /\ calls < MaxCalls
       /\ calls' = calls + 1
       /\ UNCHANGED <<http, table>>
       /\ IF ~geometryInHash(gId)
          THEN createBuffers(gId, planeGeom(d))
          ELSE UNCHANGED <<cache, created>>
       /\ lastCall' = Call("plane", a, Some(gId), ~geometryInHash(gId),
                           <<drawBuffersScaled(gId, d.width, d.height, 1)>>,
                           drawThrows, Returned(drawThrows, "this"), undefined)
       /\ UNCHANGED uMVMatrix

(***************************************************************************)
(* p5.prototype.box                                                        *)
(***************************************************************************)
boxArgs(a) ==
  LET width == IF IsUndefined(a.width) THEN 50 ELSE Val(a.width)
      height == IF IsUndefined(a.height) THEN width ELSE Val(a.height)
  IN [width |-> width,
      height |-> height,
      depth |-> IF IsUndefined(a.depth) THEN height ELSE Val(a.depth),
      detailX |-> IF IsUndefined(a.detailX)
                  THEN (IF a.perPixelLighting THEN 1 ELSE 4)
                  ELSE Val(a.detailX),
      detailY |-> IF IsUndefined(a.detailY)
                  THEN (IF a.perPixelLighting THEN 1 ELSE 4)
                  ELSE Val(a.detailY)]

boxGId(d) == <<"box", d.detailX, d.detailY>>

\* boxGeom without the detail test before the stroke edges
boxGeomAlwaysStroked(d) ==
  _edgesToVertices(_makeTriangleEdges(
    computeNormals(_box(NewGeometry(d.detailX, d.detailY)))))

boxGeom(d) ==
  LET g == computeNormals(_box(NewGeometry(d.detailX, d.detailY)))
  IN IF d.detailX <= 4 /\ d.detailY <= 4
     THEN _edgesToVertices(_makeTriangleEdges(g))
     ELSE g

\* box whose createBuffers drops what the cache held
boxEvicts(Requests) ==
  \E a \in Requests, drawThrows \in BOOLEAN :
    LET d == boxArgs(a)
        gId == boxGId(d)
    IN /\ calls < MaxCalls
       /\ calls' = calls + 1
       /\ UNCHANGED <<http, table>>
       /\ IF ~geometryInHash(gId)
          THEN /\ cache' = (gId :> boxGeom(d))
               /\ created' = (gId :> 1) @@ created
          ELSE UNCHANGED <<cache, created>>
       /\ lastCall' = Call("box", a, Some(gId), ~geometryInHash(gId),
                           <<drawBuffersScaled(gId, d.width, d.height, d.depth)>>,
                           drawThrows, Returned(drawThrows, "this"), undefined)
       /\ UNCHANGED uMVMatrix

box(Requests) ==
  \E a \in Requests, drawThrows \in BOOLEAN :
    LET d == boxArgs(a)
        gId == boxGId(d)
    IN /\ calls < MaxCalls
       /\ calls' = calls + 1
       /\ UNCHANGED <<http, table>>
       /\ IF ~geometryInHash(gId)
          THEN createBuffers(gId, boxGeom(d))
          ELSE UNCHANGED <<cache, created>>
       /\ lastCall' = Call("box", a, Some(gId), ~geometryInHash(gId),
                           <<drawBuffersScaled(gId, d.width, d.height, d.depth)>>,
                           drawThrows, Returned(drawThrows, "this"), undefined)
       /\ UNCHANGED uMVMatrix

(***************************************************************************)
(* p5.prototype.cylinder and p5.prototype.cone                             *)
(***************************************************************************)
cylinderArgs(a) ==
  LET radius == IF IsUndefined(a.radius) THEN 50 ELSE Val(a.radius)
  IN [radius |-> radius,
      height |-> IF IsUndefined(a.height) THEN radius ELSE Val(a.height),
      detailX |-> IF IsUndefined(a.detailX) THEN 24 ELSE Val(a.detailX),
      detailY |-> IF IsUndefined(a.detailY) THEN 1 ELSE Val(a.detailY),
      topCap |-> IF IsUndefined(a.topCap) THEN TRUE ELSE Val(a.topCap),
      bottomCap |-> IF IsUndefined(a.bottomCap) THEN TRUE ELSE Val(a.bottomCap)]

cylinderGId(d) == <<"cylinder", d.detailX, d.detailY, d.bottomCap, d.topCap>>

\* cylinderGeom with the ceiling of 24 for both details
cylinderGeomSquareCeiling(d) ==
  LET g == computeNormals(
             _truncatedCone(NewGeometry(d.detailX, d.detailY), 1, 1, 1,
                            d.detailX, d.detailY,
                            Some(d.bottomCap), Some(d.topCap)))
  IN IF d.detailX <= 24 /\ d.detailY <= 24
     THEN _edgesToVertices(_makeTriangleEdges(g))
     ELSE g

cylinderGeom(d) ==
  LET g == computeNormals(
             _truncatedCone(NewGeometry(d.detailX, d.detailY), 1, 1, 1,
                            d.detailX, d.detailY,
                            Some(d.bottomCap), Some(d.topCap)))
  IN IF d.detailX <= 24 /\ d.detailY <= 16
     THEN _edgesToVertices(_makeTriangleEdges(g))
     ELSE g

cylinder(Requests) ==
  \E a \in Requests, drawThrows \in BOOLEAN :
    LET d == cylinderArgs(a)
        gId == cylinderGId(d)
    IN /\ calls < MaxCalls
       /\ calls' = calls + 1
       /\ UNCHANGED <<http, table>>
       /\ IF ~geometryInHash(gId)
          THEN createBuffers(gId, cylinderGeom(d))
          ELSE UNCHANGED <<cache, created>>
       /\ lastCall' = Call("cylinder", a, Some(gId), ~geometryInHash(gId),
                           <<drawBuffersScaled(gId, d.radius, d.height, d.radius)>>,
                           drawThrows, Returned(drawThrows, "this"), undefined)
       /\ UNCHANGED uMVMatrix

coneArgs(a) ==
  LET radius == IF IsUndefined(a.radius) THEN 50 ELSE Val(a.radius)
  IN [radius |-> radius,
      height |-> IF IsUndefined(a.height) THEN radius ELSE Val(a.height),
      detailX |-> IF IsUndefined(a.detailX) THEN 24 ELSE Val(a.detailX),
      detailY |-> IF IsUndefined(a.detailY) THEN 1 ELSE Val(a.detailY),
      cap |-> IF IsUndefined(a.cap) THEN TRUE ELSE Val(a.cap)]

coneGId(d) == <<"cone", d.detailX, d.detailY, d.cap>>

\* coneGeom with a top radius of 1 in place of 0
coneGeomFlatTop(d) ==
  LET g == computeNormals(
             _truncatedCone(NewGeometry(d.detailX, d.detailY), 1, 1, 1,
                            d.detailX, d.detailY, Some(d.cap), Some(FALSE)))
  IN IF d.detailX <= 24 /\ d.detailY <= 16
     THEN _edgesToVertices(_makeTriangleEdges(g))
     ELSE g

coneGeom(d) ==
  LET g == computeNormals(
             _truncatedCone(NewGeometry(d.detailX, d.detailY), 1, 0, 1,
                            d.detailX, d.detailY, Some(d.cap), Some(FALSE)))
  IN IF d.detailX <= 24 /\ d.detailY <= 16
     THEN _edgesToVertices(_makeTriangleEdges(g))
     ELSE g

\* cone without the block that builds the geometry: it draws whatever the key names
coneDrawsUnbuilt(Requests) ==
  \E a \in Requests, drawThrows \in BOOLEAN :
    LET d == coneArgs(a)
        gId == coneGId(d)
    IN /\ calls < MaxCalls
       /\ calls' = calls + 1
       /\ UNCHANGED <<http, table>>
       /\ UNCHANGED <<cache, created>>
       /\ lastCall' = Call("cone", a, Some(gId), FALSE,
                           <<drawBuffersScaled(gId, d.radius, d.height, d.radius)>>,
                           drawThrows, Returned(drawThrows, "this"), undefined)
       /\ UNCHANGED uMVMatrix

cone(Requests) ==
  \E a \in Requests, drawThrows \in BOOLEAN :
    LET d == coneArgs(a)
        gId == coneGId(d)
    IN /\ calls < MaxCalls
       /\ calls' = calls + 1
       /\ UNCHANGED <<http, table>>
       /\ IF ~geometryInHash(gId)
          THEN createBuffers(gId, coneGeom(d))
          ELSE UNCHANGED <<cache, created>>
       /\ lastCall' = Call("cone", a, Some(gId), ~geometryInHash(gId),
                           <<drawBuffersScaled(gId, d.radius, d.height, d.radius)>>,
                           drawThrows, Returned(drawThrows, "this"), undefined)
       /\ UNCHANGED uMVMatrix

(***************************************************************************)
(* p5.prototype.ellipsoid and p5.prototype.sphere                          *)
(***************************************************************************)
ellipsoidArgs(a) ==
  LET radiusX == IF IsUndefined(a.radiusX) THEN 50 ELSE Val(a.radiusX)
  IN [radiusX |-> radiusX,
      radiusY |-> IF IsUndefined(a.radiusY) THEN radiusX ELSE Val(a.radiusY),
      radiusZ |-> IF IsUndefined(a.radiusZ) THEN radiusX ELSE Val(a.radiusZ),
      detailX |-> IF IsUndefined(a.detailX) THEN 24 ELSE Val(a.detailX),
      detailY |-> IF IsUndefined(a.detailY) THEN 16 ELSE Val(a.detailY)]

ellipsoidGId(d) == <<"ellipsoid", d.detailX, d.detailY>>

ellipsoidGeom(d) ==
  LET g == computeFaces(_ellipsoid(NewGeometry(d.detailX, d.detailY)))
  IN IF d.detailX <= 24 /\ d.detailY <= 24
     THEN _edgesToVertices(_makeTriangleEdges(g))
     ELSE g

ellipsoid(Requests) ==
  \E a \in Requests, drawThrows \in BOOLEAN :
    LET d == ellipsoidArgs(a)
        gId == ellipsoidGId(d)
    IN /\ calls < MaxCalls
       /\ calls' = calls + 1
       /\ UNCHANGED <<http, table>>
       /\ IF ~geometryInHash(gId)
          THEN createBuffers(gId, ellipsoidGeom(d))
          ELSE UNCHANGED <<cache, created>>
       /\ lastCall' = Call("ellipsoid", a, Some(gId), ~geometryInHash(gId),
                           <<drawBuffersScaled(gId, d.radiusX, d.radiusY, d.radiusZ)>>,
                           drawThrows, Returned(drawThrows, "this"), undefined)
       /\ UNCHANGED uMVMatrix

\* the arguments sphere passes to ellipsoid
sphereArgs(a) ==
  LET radius == IF IsUndefined(a.radius) THEN 50 ELSE Val(a.radius)
  IN [radiusX |-> Some(radius), radiusY |-> Some(radius), radiusZ |-> Some(radius),
      detailX |-> Some(IF IsUndefined(a.detailX) THEN 24 ELSE Val(a.detailX)),
      detailY |-> Some(IF IsUndefined(a.detailY) THEN 16 ELSE Val(a.detailY))]

sphere(Requests) ==
  \E a \in Requests, drawThrows \in BOOLEAN :
    LET d == ellipsoidArgs(sphereArgs(a))
        gId == ellipsoidGId(d)
    IN /\ calls < MaxCalls
       /\ calls' = calls + 1
       /\ UNCHANGED <<http, table>>
       /\ IF ~geometryInHash(gId)
          THEN createBuffers(gId, ellipsoidGeom(d))
          ELSE UNCHANGED <<cache, created>>
       /\ lastCall' = Call("sphere", a, Some(gId), ~geometryInHash(gId),
                           <<drawBuffersScaled(gId, d.radiusX, d.radiusY, d.radiusZ)>>,
                           drawThrows, Returned(drawThrows, "this"), undefined)
       /\ UNCHANGED uMVMatrix

(***************************************************************************)
(* p5.prototype.torus                                                      *)
(***************************************************************************)
\* !x for a number x
Falsy(x) == x = 0

\* the early return of torus for a zero radius only
torusZeroRadiusOnly(a) == ~IsUndefined(a.radius) /\ Falsy(Val(a.radius))

\* the early return: a radius or a tube radius that was passed and is falsy
torusNothingToDraw(a) ==
  \/ ~IsUndefined(a.radius) /\ Falsy(Val(a.radius))
  \/ ~IsUndefined(a.tubeRadius) /\ Falsy(Val(a.tubeRadius))

torusArgs(a) ==
  LET radius == IF IsUndefined(a.radius) THEN 50 ELSE Val(a.radius)
      tubeRadius == IF IsUndefined(a.tubeRadius) THEN 10 ELSE Val(a.tubeRadius)
  IN [radius |-> radius,
      tubeRadius |-> tubeRadius,
      detailX |-> IF IsUndefined(a.detailX) THEN 24 ELSE Val(a.detailX),
      detailY |-> IF IsUndefined(a.detailY) THEN 16 ELSE Val(a.detailY),
      tubeRatio |-> toPrecision4(tubeRadius, radius)]

\* the key with the two radii in place of their rounded ratio
torusGIdByRadii(d) == <<"torus", <<d.tubeRadius, d.radius>>, d.detailX, d.detailY>>

torusGId(d) == <<"torus", d.tubeRatio, d.detailX, d.detailY>>

torusGeom(d) ==
  LET g == computeFaces(_torus(NewGeometry(d.detailX, d.detailY), d.tubeRatio))
  IN IF d.detailX <= 24 /\ d.detailY <= 16
     THEN _edgesToVertices(_makeTriangleEdges(g))
     ELSE g

torus(Requests) ==
  \E a \in Requests, drawThrows \in BOOLEAN :
    /\ calls < MaxCalls
    /\ calls' = calls + 1
    /\ UNCHANGED <<http, table>>
    /\ UNCHANGED uMVMatrix
    /\ IF torusNothingToDraw(a)
       THEN /\ ~drawThrows
            /\ lastCall' = Call("torus", a, undefined, FALSE, <<>>, FALSE,
                                "undefined", undefined)
            /\ UNCHANGED <<cache, created>>
       ELSE LET d == torusArgs(a)
                gId == torusGId(d)
            IN /\ IF ~geometryInHash(gId)
                  THEN createBuffers(gId, torusGeom(d))
                  ELSE UNCHANGED <<cache, created>>
               /\ lastCall' = Call("torus", a, Some(gId), ~geometryInHash(gId),
                                   <<drawBuffersScaled(gId, d.radius, d.radius, d.radius)>>,
                                   drawThrows, Returned(drawThrows, "this"),
                                   Some(d.tubeRatio))

(***************************************************************************)
(* p5.RendererGL.prototype.triangle                                        *)
(***************************************************************************)
triangleGId == <<"tri">>

triangleGeom ==
  computeNormals(_edgesToVertices(_makeTriangleEdges(_triangle(NewGeometry(1, 1)))))

\* the matrix with the two edge vectors in each other's row
triangleMultSwapped(a) ==
  <<a.x3 - a.x1, a.y3 - a.y1, 0, 0,
    a.x2 - a.x1, a.y2 - a.y1, 0, 0,
    0, 0, 1, 0,
    a.x1, a.y1, 0, 1>>

\* the matrix that takes the cached triangle onto the three points
triangleMult(a) ==
  <<a.x2 - a.x1, a.y2 - a.y1, 0, 0,
    a.x3 - a.x1, a.y3 - a.y1, 0, 0,
    0, 0, 1, 0,
    a.x1, a.y1, 0, 1>>

\* the restore as the last statement of the try block, not in a finally
triangleRestoreInTry(saved, current, drawThrows) ==
  IF drawThrows THEN current ELSE saved

\* finally { this.uMVMatrix = uMVMatrix; }
triangleFinally(saved, current, drawThrows) == saved

triangle(Requests) ==
  \E a \in Requests, drawThrows \in BOOLEAN :
    LET gId == triangleGId
        saved == uMVMatrix
        mult == MatMult(triangleMult(a), uMVMatrix)
    IN /\ calls < MaxCalls
       /\ calls' = calls + 1
       /\ UNCHANGED <<http, table>>
       /\ IF ~geometryInHash(gId)
          THEN createBuffers(gId, triangleGeom)
          ELSE UNCHANGED <<cache, created>>
       /\ lastCall' = Call("triangle", a, Some(gId), ~geometryInHash(gId),
                           <<drawBuffers(gId, mult)>>,
                           drawThrows, Returned(drawThrows, "this"), undefined)
       /\ uMVMatrix' = triangleFinally(saved, mult, drawThrows)

(***************************************************************************)
(* p5.RendererGL.prototype.arc and p5.RendererGL.prototype.ellipse         *)
(***************************************************************************)
\* arguments[7] || 25
arcDetail(a) ==
  IF IsUndefined(a.detail) \/ Falsy(Val(a.detail)) THEN 25 ELSE Val(a.detail)

arcIsEllipse(a) == AtLeastFullTurn(AngleDiff(a.stop, a.start))

arcGId(a) ==
  IF arcIsEllipse(a)
  THEN <<"ellipse", arcDetail(a)>>
  ELSE <<"arc", a.start, a.stop, a.mode, arcDetail(a)>>

arcGeom(a) ==
  LET detail == arcDetail(a)
      g == computeNormals(_arc(NewGeometry(detail, 1), a.start, a.stop, a.mode, detail))
  IN IF detail <= 50
     THEN _edgesToVertices(_makeTriangleEdges(g))
     ELSE g

\* finally { this.uMVMatrix = uMVMatrix; }
arcFinally(saved, current, drawThrows) == saved

arc(Requests) ==
  \E a \in Requests, drawThrows \in BOOLEAN :
    LET gId == arcGId(a)
        saved == uMVMatrix
        current == MatScale(MatTranslate(uMVMatrix, a.x, a.y, 0), a.width, a.height, 1)
    IN /\ calls < MaxCalls
       /\ calls' = calls + 1
       /\ UNCHANGED <<http, table>>
       /\ IF ~geometryInHash(gId)
          THEN createBuffers(gId, arcGeom(a))
          ELSE UNCHANGED <<cache, created>>
       /\ lastCall' = Call("arc", a, Some(gId), ~geometryInHash(gId),
                           <<drawBuffers(gId, current)>>,
                           drawThrows, Returned(drawThrows, "this"), undefined)
       /\ uMVMatrix' = arcFinally(saved, current, drawThrows)

\* the arguments ellipse passes to arc
ellipseArgs(a) ==
  [x |-> a.x, y |-> a.y, width |-> a.width, height |-> a.height,
   start |-> <<0, 0>>, stop |-> TWO_PI, mode |-> Some("open"),
   detail |-> a.detail]

ellipse(Requests) ==
  \E e \in Requests, drawThrows \in BOOLEAN :
    LET a == ellipseArgs(e)
        gId == arcGId(a)
        saved == uMVMatrix
        current == MatScale(MatTranslate(uMVMatrix, a.x, a.y, 0), a.width, a.height, 1)
    IN /\ calls < MaxCalls
       /\ calls' = calls + 1
       /\ UNCHANGED <<http, table>>
       /\ IF ~geometryInHash(gId)
          THEN createBuffers(gId, arcGeom(a))
          ELSE UNCHANGED <<cache, created>>
       /\ lastCall' = Call("ellipse", e, Some(gId), ~geometryInHash(gId),
                           <<drawBuffers(gId, current)>>,
                           drawThrows, Returned(drawThrows, "undefined"), undefined)
       /\ uMVMatrix' = arcFinally(saved, current, drawThrows)

(***************************************************************************)
(* p5.RendererGL.prototype.rect                                            *)
(***************************************************************************)
\* args[4] || (perPixelLighting ? 1 : 24), args[5] || (perPixelLighting ? 1 : 16)
rectArgs(a) ==
  [x |-> a.x, y |-> a.y, width |-> a.width, height |-> a.height,
   detailX |-> IF IsUndefined(a.detailX) \/ Falsy(Val(a.detailX))
               THEN (IF a.perPixelLighting THEN 1 ELSE 24)
               ELSE Val(a.detailX),
   detailY |-> IF IsUndefined(a.detailY) \/ Falsy(Val(a.detailY))
               THEN (IF a.perPixelLighting THEN 1 ELSE 16)
               ELSE Val(a.detailY)]

rectGId(d) == <<"rect", d.detailX, d.detailY>>

rectGeom(d) ==
  _edgesToVertices(_makeTriangleEdges(computeNormals(computeFaces(
    _rect(NewGeometry(d.detailX, d.detailY), d.detailX, d.detailY)))))

\* finally { this.uMVMatrix = uMVMatrix; }
rectFinally(saved, current, drawThrows) == saved

rect(Requests) ==
  \E a \in Requests, drawThrows \in BOOLEAN :
    LET d == rectArgs(a)
        gId == rectGId(d)
        saved == uMVMatrix
        current == MatScale(MatTranslate(uMVMatrix, d.x, d.y, 0), d.width, d.height, 1)
    IN /\ calls < MaxCalls
       /\ calls' = calls + 1
       /\ UNCHANGED <<http, table>>
       /\ IF ~geometryInHash(gId)
          THEN createBuffers(gId, rectGeom(d))
          ELSE UNCHANGED <<cache, created>>
       /\ lastCall' = Call("rect", a, Some(gId), ~geometryInHash(gId),
                           <<drawBuffers(gId, current)>>,
                           drawThrows, Returned(drawThrows, "this"), undefined)
       /\ uMVMatrix' = rectFinally(saved, current, drawThrows)

(***************************************************************************)
(* p5.RendererGL.prototype.quad                                            *)
(***************************************************************************)
\* the key 'quad' for every quad
quadGIdCanonical(a) == <<"quad">>

quadGId(a) == <<"quad", a.x1, a.y1, a.x2, a.y2, a.x3, a.y3, a.x4, a.y4>>

quadGeom(a) ==
  LET g == _edgesToVertices(_makeTriangleEdges(computeNormals(
             _quad(NewGeometry(2, 2), a.x1, a.y1, a.x2, a.y2, a.x3, a.y3, a.x4, a.y4))))
  IN [g EXCEPT !.faces = <<(<<0, 1, 2>>), (<<2, 3, 0>>)>>]

quad(Requests) ==
  \E a \in Requests, drawThrows \in BOOLEAN :
    LET gId == quadGId(a)
    IN /\ calls < MaxCalls
       /\ calls' = calls + 1
       /\ UNCHANGED <<http, table>>
       /\ IF ~geometryInHash(gId)
          THEN createBuffers(gId, quadGeom(a))
          ELSE UNCHANGED <<cache, created>>
       /\ lastCall' = Call("quad", a, Some(gId), ~geometryInHash(gId),
                           <<drawBuffers(gId, uMVMatrix)>>,
                           drawThrows, Returned(drawThrows, "this"), undefined)
       /\ UNCHANGED uMVMatrix

(***************************************************************************)
(* p5.prototype.icosphere.  A position is a vector of fixed-point numbers  *)
(* in units of 1/FixedOne (the code has doubles); rounding is symmetric in *)
(* the sign, as it is for doubles, so that the mirror image of a vertex is *)
(* its exact negation and a midpoint on a mirror plane has an exact 0.     *)
(* A texture coordinate u is kept as what determines it:                   *)
(*   <<"atan", x, z>>  ((atan2(x, z) / pi + 1) / 2) % 1                     *)
(*   <<"one">>         1                                                   *)
(*   <<"avg", a, b>>   (a + b) / 2                                         *)
(* and v = acos(-y) / pi as <<"acos", -y>>.                                *)
(***************************************************************************)
FixedOne == 10000

RECURSIVE SqrtFrom(_, _)
SqrtFrom(n, x) ==
  CHOOSE r \in {IF y >= x THEN x ELSE SqrtFrom(n, y) :
                  y \in {(x + n \div x) \div 2}} : TRUE

\* the integer part of the square root of n, 0 <= n < 2^31
IntSqrt(n) == IF n = 0 THEN 0 ELSE SqrtFrom(n, 46340)

\* n / d rounded towards zero
DivTrunc(n, d) == IF n < 0 THEN -((-n) \div d) ELSE n \div d

\* phi = (1 + Math.sqrt(5)) / 2, in units of 1/FixedOne
GoldenRatio == (FixedOne + IntSqrt(5 * FixedOne * FixedOne)) \div 2

\* p5.Vector.add(a, b)
VecAdd(a, b) == <<a[1] + b[1], a[2] + b[2], a[3] + b[3]>>

\* p.normalize()
Normalize(p) ==
  CHOOSE n \in
    {IF len = 0 THEN p
     ELSE <<DivTrunc(p[1] * FixedOne, len), DivTrunc(p[2] * FixedOne, len),
            DivTrunc(p[3] * FixedOne, len)>> :
       len \in {IntSqrt(p[1] * p[1] + p[2] * p[2] + p[3] * p[3])}} : TRUE

\* u === 0: atan2(x, z) is pi or -pi
UIsZero(u) == u[1] = "atan" /\ u[2] = 0 /\ u[3] < 0

\* u < 0.25: atan2(x, z) < -pi/2, or u is 0
ULessQuarter(u) == u[1] = "atan" /\ u[3] < 0 /\ u[2] <= 0

\* u > 0.75: atan2(x, z) > pi/2 and u is not 0
UMoreThreeQuarters(u) ==
  \/ u[1] = "one"
  \/ u[1] = "atan" /\ u[3] < 0 /\ u[2] > 0

\* v % 1 === 0: acos(-y) is 0 or pi
VIsPole(v) == v[2] = FixedOne \/ v[2] = -FixedOne

\* addVertex(p)
addVertex(g, p0) ==
  LET p == Normalize(p0)
  IN [g EXCEPT !.vertices = Push(g.vertices, p),
               !.vertexNormals = Push(g.vertexNormals, p),
               !.uvs = Push(g.uvs, <<(<<"atan", p[1], p[3]>>), (<<"acos", -p[2]>>)>>)]

\* midPoint with the key p1 + ',' + p2, whatever the order of p1 and p2
midPointDirected(st, p1, p2) ==
  LET key == <<p1, p2>>
  IN IF key \in DOMAIN st.midPointIndexCache
     THEN [st EXCEPT !.ret = st.midPointIndexCache[key]]
     ELSE [st EXCEPT
             !.g = addVertex(st.g, VecAdd(At(st.g.vertices, p1), At(st.g.vertices, p2))),
             !.midPointIndexCache = (key :> Len(st.g.vertices)) @@ @,
             !.ret = Len(st.g.vertices)]

\* midPoint(p1, p2): the geometry, the index cache and the index returned
midPoint(st, p1, p2) ==
  LET key == IF p1 < p2 THEN <<p1, p2>> ELSE <<p2, p1>>
  IN IF key \in DOMAIN st.midPointIndexCache
     THEN [st EXCEPT !.ret = st.midPointIndexCache[key]]
     ELSE [st EXCEPT
             !.g = addVertex(st.g, VecAdd(At(st.g.vertices, p1), At(st.g.vertices, p2))),
             !.midPointIndexCache = (key :> Len(st.g.vertices)) @@ @,
             !.ret = Len(st.g.vertices)]

icosahedronVertices ==
  <<(<<-FixedOne, GoldenRatio, 0>>), (<<FixedOne, GoldenRatio, 0>>),
    (<<-FixedOne, -GoldenRatio, 0>>), (<<FixedOne, -GoldenRatio, 0>>),
    (<<0, -FixedOne, GoldenRatio>>), (<<0, FixedOne, GoldenRatio>>),
    (<<0, -FixedOne, -GoldenRatio>>), (<<0, FixedOne, -GoldenRatio>>),
    (<<GoldenRatio, 0, -FixedOne>>), (<<GoldenRatio, 0, FixedOne>>),
    (<<-GoldenRatio, 0, -FixedOne>>), (<<-GoldenRatio, 0, FixedOne>>)>>

icosahedronFaces ==
  <<(<<0, 5, 11>>), (<<0, 1, 5>>), (<<0, 7, 1>>), (<<0, 10, 7>>), (<<0, 11, 10>>),
    (<<1, 9, 5>>), (<<5, 4, 11>>), (<<11, 2, 10>>), (<<10, 6, 7>>), (<<7, 8, 1>>),
    (<<3, 4, 9>>), (<<3, 2, 4>>), (<<3, 6, 2>>), (<<3, 8, 6>>), (<<3, 9, 8>>),
    (<<4, 5, 9>>), (<<2, 11, 4>>), (<<6, 10, 2>>), (<<8, 7, 6>>), (<<9, 1, 8>>)>>

\* replace triangle iTri of faces by four, pushed on faces2
RefineTriangle(st, faces, iTri) ==
  LET tri == At(faces, iTri)
      a == tri[1]
      b == tri[2]
      c == tri[3]
      s1 == midPoint(st, a, b)
      ab == s1.ret
      s2 == midPoint(s1, b, c)
      bc == s2.ret
      s3 == midPoint(s2, c, a)
      ca == s3.ret
  IN [s3 EXCEPT !.faces2 = @ \o <<(<<a, ab, ca>>), (<<b, bc, ab>>),
                                  (<<c, ca, bc>>), (<<ab, bc, ca>>)>>]

\* one pass of the outer loop: every triangle of st.faces refined
RefinePass(st, detail, i) ==
  LET done == Loop("RefineTriangle", [st EXCEPT !.faces2 = <<>>], st.faces,
                   0, Len(st.faces) - 1)
  IN [done EXCEPT !.faces = done.faces2]

\* the addVertex call for the k-th vertex of the icosahedron
addIcosahedronVertex(g, vs, k) == addVertex(g, vs[k])

\* the geometry and the faces after the refinement, before the repair of
\* the texture coordinates
icosphereRefined(detail) ==
  LET g0 == Loop("addIcosahedronVertex", NewGeometry(detail, 1),
                 icosahedronVertices, 1, Len(icosahedronVertices))
      st == Loop("RefinePass",
                 [g |-> g0, midPointIndexCache |-> <<>>, ret |-> 0,
                  faces |-> icosahedronFaces, faces2 |-> <<>>],
                 detail, 0, detail - 1)
  IN [g |-> st.g, faces |-> st.faces]

\* dupe that pushes the texture coordinates but not the vertex
dupeForgetsVertex(g, iv, u, v) ==
  [g EXCEPT !.uvs = Push(g.uvs, <<u, v>>)]

\* dupe(iv, u, v): the geometry with the copy appended (its index is the
\* length of vertices before)
dupe(g, iv, u, v) ==
  [g EXCEPT !.vertices = Push(g.vertices, At(g.vertices, iv)),
            !.vertexNormals = Push(g.vertexNormals, At(g.vertices, iv)),
            !.uvs = Push(g.uvs, <<u, v>>)]

\* the seam loop, corner q of the face
SeamCorner(st, three, q) ==
  LET iv == st.face[q + 1]
  IN IF UIsZero(At(st.g.uvs, iv)[1])
     THEN [g |-> dupe(st.g, iv, <<"one">>, At(st.g.uvs, iv)[2]),
           face |-> [st.face EXCEPT ![q + 1] = Len(st.g.vertices)]]
     ELSE st

SeamCorners(st) == Loop("SeamCorner", st, 3, 0, 2)

\* the pole loop with the test v === 0 in place of v % 1 === 0
PoleCornerZeroOnly(st, three, q) ==
  LET iv == st.face[q + 1]
      v == At(st.g.uvs, iv)[2]
  IN IF v[2] = FixedOne
     THEN LET u == <<"avg", At(st.g.uvs, st.face[((q + 1) % 3) + 1])[1],
                            At(st.g.uvs, st.face[((q + 2) % 3) + 1])[1]>>
          IN [g |-> dupe(st.g, iv, u, v),
              face |-> [st.face EXCEPT ![q + 1] = Len(st.g.vertices)]]
     ELSE st

\* the pole loop, corner q of the face
PoleCorner(st, three, q) ==
  LET iv == st.face[q + 1]
      v == At(st.g.uvs, iv)[2]
  IN IF VIsPole(v)
     THEN LET u == <<"avg", At(st.g.uvs, st.face[((q + 1) % 3) + 1])[1],
                            At(st.g.uvs, st.face[((q + 2) % 3) + 1])[1]>>
          IN [g |-> dupe(st.g, iv, u, v),
              face |-> [st.face EXCEPT ![q + 1] = Len(st.g.vertices)]]
     ELSE st

PoleCorners(st) == Loop("PoleCorner", st, 3, 0, 2)

\* one face of the repair loop
RepairFace(g, face) ==
  LET u1 == At(g.uvs, face[1])[1]
      u2 == At(g.uvs, face[2])[1]
      u3 == At(g.uvs, face[3])[1]
      st0 == [g |-> g, face |-> face]
      st1 == IF (ULessQuarter(u1) \/ ULessQuarter(u2) \/ ULessQuarter(u3))
                /\ (UMoreThreeQuarters(u1) \/ UMoreThreeQuarters(u2)
                    \/ UMoreThreeQuarters(u3))
             THEN SeamCorners(st0)
             ELSE st0
  IN PoleCorners(st1)

\* the repair loop: face fi of st.faces
RepairStep(st, count, fi) ==
  LET r == RepairFace(st.g, At(st.faces, fi))
  IN [g |-> r.g, faces |-> [st.faces EXCEPT ![fi + 1] = r.face]]

RepairFaces(g, faces) ==
  Loop("RepairStep", [g |-> g, faces |-> faces], Len(faces), 0, Len(faces) - 1)

\* the bodies of the loops
LoopBody(step, st, env, i) ==
  CASE step = "AddIncident" -> AddIncident(st, env, i)
    [] step = "KeepSide" -> KeepSide(st, env, i)
    [] step = "addIcosahedronVertex" -> addIcosahedronVertex(st, env, i)
    [] step = "RefineTriangle" -> RefineTriangle(st, env, i)
    [] step = "RefinePass" -> RefinePass(st, env, i)
    [] step = "SeamCorner" -> SeamCorner(st, env, i)
    [] step = "PoleCorner" -> PoleCorner(st, env, i)
    [] step = "RepairStep" -> RepairStep(st, env, i)

icosphereArgs(a) ==
  LET radiusX == IF IsUndefined(a.radiusX) THEN 50 ELSE Val(a.radiusX)
  IN [radiusX |-> radiusX,
      radiusY |-> IF IsUndefined(a.radiusY) THEN radiusX ELSE Val(a.radiusY),
      radiusZ |-> IF IsUndefined(a.radiusZ) THEN radiusX ELSE Val(a.radiusZ),
      detail |-> IF IsUndefined(a.detail) THEN 3 ELSE Val(a.detail)]

icosphereGId(d) == <<"icosphere", d.detail>>

icosphereGeom(d) ==
  LET refined == icosphereRefined(d.detail)
      repaired == RepairFaces(refined.g, refined.faces)
  IN _edgesToVertices(_makeTriangleEdges(
       [repaired.g EXCEPT !.faces = repaired.faces]))

icosphere(Requests) ==
  \E a \in Requests, drawThrows \in BOOLEAN :
    LET d == icosphereArgs(a)
        gId == icosphereGId(d)
    IN /\ calls < MaxCalls
       /\ calls' = calls + 1
       /\ UNCHANGED <<http, table>>
       /\ IF ~geometryInHash(gId)
          THEN createBuffers(gId, icosphereGeom(d))
          ELSE UNCHANGED <<cache, created>>
       /\ lastCall' = Call("icosphere", a, Some(gId), ~geometryInHash(gId),
                           <<drawBuffersScaled(gId, <<d.radiusX, d.radiusY, d.radiusZ>>,
                                               undefined, undefined)>>,
                           drawThrows, Returned(drawThrows, "this"), undefined)
       /\ UNCHANGED uMVMatrix

(***************************************************************************)
(* httpDo (src/io/files.js): the arguments it reads, the request it makes  *)
(* and the promise it returns.  A JavaScript value is its typeof and its   *)
(* text: a string is itself, a number its digits, an object its name (its  *)
(* own properties are listed where they are asked for), a function its     *)
(* name.  A promise is                                                     *)
(* <<"pending">>, <<"resolved", value>> or <<"rejected", reason>>, and     *)
(* the reactions to a promise run one at a time, in the order in which     *)
(* they were attached.                                                     *)
(***************************************************************************)
JsValue(typeof, value) == [typeof |-> typeof, value |-> value]

\* String.prototype.indexOf on the pieces a path is made of: the 0-based
\* position of the first piece equal to word, or -1
indexOf(s, word) ==
  LET pieces == CASE s = "data.json" -> <<"data", ".", "json">>
                  [] s = "feed.xml" -> <<"feed", ".", "xml">>
                  [] s = "json.xml" -> <<"json", ".", "xml">>
                  [] s = "notes.txt" -> <<"notes", ".", "txt">>
                  [] OTHER -> <<s>>
      found == {i \in 1..Len(pieces) : pieces[i] = word}
  IN IF found = {} THEN -1
     ELSE (CHOOSE i \in found : \A k \in found : i <= k) - 1

\* the callbacks trimmed off the end: the loop from the last argument down
\* to arguments[1] stops at the first one that is not a function
cbCount(arguments) ==
  Cardinality({c \in 1..(Len(arguments) - 1) :
                 \A i \in (Len(arguments) - c)..(Len(arguments) - 1) :
                    At(arguments, i).typeof = "function"})

\* one turn of the loop over arguments[1..]: what the argument a sets
httpDoArgument(st, a) ==
  LET own == CASE a.value = "jsonpOptions" -> {"jsonpCallback", "timeout"}
               [] a.value = "record" -> {"id"}
               [] OTHER -> {}
  IN
  CASE a.typeof = "string" ->
         IF a.value \in {"GET", "POST", "PUT", "DELETE"}
         THEN [st EXCEPT !.method = a.value]
         ELSE IF a.value \in {"json", "jsonp", "binary", "arrayBuffer",
                              "xml", "text"}
         THEN [st EXCEPT !.type = Some(a.value)]
         ELSE [st EXCEPT !.data = Some(<<"string", a.value>>)]
    [] a.typeof = "number" ->
         [st EXCEPT !.data = Some(<<"toString", a.value>>)]
    [] a.typeof = "object" ->
         IF "jsonpCallback" \in own
         THEN [st EXCEPT !.jsonpOptions = st.jsonpOptions \cup own]
         ELSE [st EXCEPT !.data = Some(<<"JSON.stringify", a.value>>),
                         !.contentType = "application/json"]
    [] a.typeof = "function" ->
         IF st.callback = undefined
         THEN [st EXCEPT !.callback = Some(a.value)]
         ELSE [st EXCEPT !.errorCallback = Some(a.value)]
    [] OTHER -> st

RECURSIVE httpDoArguments(_, _, _)
\* the loop for (j = 1; j < arguments.length; j++)
httpDoArguments(st, arguments, j) ==
  IF j >= Len(arguments) THEN st
  ELSE httpDoArguments(httpDoArgument(st, At(arguments, j)), arguments, j + 1)

\* the type passed, or the one guessed from the path when none was passed
httpDoType(type, path) ==
  IF type # undefined THEN Val(type)
  ELSE IF indexOf(path, "json") # -1 THEN "json"
  ELSE IF indexOf(path, "xml") # -1 THEN "xml"
  ELSE "text"

\* what httpDo has read from its arguments when it calls fetch
httpDoRequest(arguments) ==
  LET argsCount == Len(arguments) - cbCount(arguments)
      path == At(arguments, 0)
      argument(i) == IF i < Len(arguments)
                     THEN Some(At(arguments, i).value) ELSE undefined
  IN IF /\ argsCount = 2
        /\ path.typeof = "string"
        /\ At(arguments, 1).typeof = "object"
     THEN [request |-> <<path.value, "Request", At(arguments, 1).value>>,
           type |-> httpDoType(undefined, path.value),
           jsonpOptions |-> {},
           callback |-> argument(2),
           errorCallback |-> argument(3)]
     ELSE LET st == httpDoArguments(
                      [method |-> "GET", type |-> undefined,
                       data |-> undefined, contentType |-> "text/plain",
                       jsonpOptions |-> {}, callback |-> undefined,
                       errorCallback |-> undefined], arguments, 1)
          IN [request |-> <<path.value, st.method, "cors", st.data,
                            st.contentType>>,
              type |-> httpDoType(st.type, path.value),
              jsonpOptions |-> st.jsonpOptions,
              callback |-> st.callback,
              errorCallback |-> st.errorCallback]

\* the function(res) without its test of res.ok
httpDoThenUnchecked(res, type) ==
  [throws |-> undefined,
   returns |-> Some(CASE type \in {"json", "jsonp"} -> "json"
                      [] type = "binary" -> "blob"
                      [] type = "arrayBuffer" -> "arrayBuffer"
                      [] type = "xml" -> "parseXML"
                      [] OTHER -> "text")]

\* the function(res) given to then: it throws for a response that is not
\* ok, and returns the promise of the reader that the type selects
\* otherwise
httpDoThen(res, type) ==
  IF ~res.ok
  THEN [throws |-> Some([error |-> res.body, status |-> res.status,
                         ok |-> FALSE]),
        returns |-> undefined]
  ELSE [throws |-> undefined,
        returns |-> Some(CASE type \in {"json", "jsonp"} -> "json"
                           [] type = "binary" -> "blob"
                           [] type = "arrayBuffer" -> "arrayBuffer"
                           [] type = "xml" -> "parseXML"
                           [] OTHER -> "text")]

\* no call of httpDo yet
HttpIdle ==
  [call |-> undefined, fetched |-> <<"pending">>, reading |-> undefined,
   promise |-> <<"pending">>, jobs |-> <<>>, invoked |-> <<>>]

\* httpDo(path, ...): reads its arguments, starts the request, attaches
\* function(res) to it, then callback and errorCallback to the result, and
\* returns the result
httpDo(Requests) ==
  /\ http.call = undefined
  /\ UNCHANGED <<cache, uMVMatrix, lastCall, created, calls, table>>
  /\ \E arguments \in Requests :
       http' = [HttpIdle EXCEPT !.call = Some(httpDoRequest(arguments)),
                                !.jobs = <<"then", "catch">>]

\* the request settles: fetch rejects when no response arrives, and
\* resolves with the response whatever its status; fetchJsonp rejects on
\* a timeout and resolves with a response that is ok.  The body of a
\* response is "complete" when its reader can produce the data and
\* "unreadable" when the reader fails (JSON that does not parse, a
\* connection lost after the headers).
fetchSettles ==
  /\ http.call # undefined
  /\ UNCHANGED <<cache, uMVMatrix, lastCall, created, calls, table>>
  /\ http.fetched = <<"pending">>
  /\ \E outcome \in
          {<<"rejected", "no response">>}
          \cup {<<"resolved", [ok |-> TRUE, status |-> 200, body |-> b]>> :
                  b \in {"complete", "unreadable"}}
          \cup {<<"resolved", [ok |-> FALSE, status |-> s, body |-> b]>> :
                  s \in IF Val(http.call).type = "jsonp" THEN {}
                        ELSE {404, 500},
                  b \in {"complete", "unreadable"}} :
       http' = [http EXCEPT !.fetched = outcome]

\* promise = promise.then(function(res) {...}): a rejection passes through,
\* a throw of the function rejects the promise, and a promise it returns
\* is waited for
promiseThen ==
  /\ http.fetched # <<"pending">>
  /\ UNCHANGED <<cache, uMVMatrix, lastCall, created, calls, table>>
  /\ http.promise = <<"pending">>
  /\ http.reading = undefined
  /\ IF http.fetched[1] = "rejected"
     THEN http' = [http EXCEPT !.promise = http.fetched]
     ELSE LET ran == httpDoThen(http.fetched[2], Val(http.call).type)
          IN IF ran.throws # undefined
             THEN http' = [http EXCEPT
                             !.promise = <<"rejected", Val(ran.throws)>>]
             ELSE http' = [http EXCEPT !.reading = ran.returns]

\* the promise of the reader settles, and the promise of httpDo with it
bodySettles ==
  /\ http.reading # undefined
  /\ UNCHANGED <<cache, uMVMatrix, lastCall, created, calls, table>>
  /\ http.promise = <<"pending">>
  /\ http' = [http EXCEPT !.promise =
                IF http.fetched[2].body = "complete"
                THEN <<"resolved", <<Val(http.reading), "data">>>>
                ELSE <<"rejected", <<Val(http.reading), "failed">>>>]

\* promise.then(callback || function() {}): the first reaction attached
thenCallback ==
  /\ http.promise # <<"pending">>
  /\ UNCHANGED <<cache, uMVMatrix, lastCall, created, calls, table>>
  /\ http.jobs # <<>>
  /\ Head(http.jobs) = "then"
  /\ http' = [http EXCEPT
                !.jobs = Tail(http.jobs),
                !.invoked =
                  IF http.promise[1] = "resolved"
                  THEN Append(http.invoked,
                              [fn |-> IF Val(http.call).callback = undefined
                                      THEN "function() {}"
                                      ELSE Val(Val(http.call).callback),
                               argument |-> http.promise[2]])
                  ELSE http.invoked]

\* promise.catch(errorCallback || console.error): the second reaction
catchErrorCallback ==
  /\ http.promise # <<"pending">>
  /\ UNCHANGED <<cache, uMVMatrix, lastCall, created, calls, table>>
  /\ http.jobs # <<>>
  /\ Head(http.jobs) = "catch"
  /\ http' = [http EXCEPT
                !.jobs = Tail(http.jobs),
                !.invoked =
                  IF http.promise[1] = "rejected"
                  THEN Append(http.invoked,
                              [fn |-> IF Val(http.call).errorCallback
                                         = undefined
                                      THEN "console.error"
                                      ELSE Val(Val(http.call).errorCallback),
                               argument |-> http.promise[2]])
                  ELSE http.invoked]

(***************************************************************************)
(* loadTable (src/io/files.js): the reading of the response text into      *)
(* records.  A text is the sequence of its characters; a token is the      *)
(* sequence of the pieces appended to it, each a character or the text     *)
(* 'undefined' that appending the value undefined leaves.                  *)
(***************************************************************************)
\* no call of loadTable yet
TableIdle ==
  [pc |-> "idle", error |-> "", sep |-> ",", header |-> FALSE, resp |-> <<>>,
   offset |-> 0, currentState |-> undefined, escaped |-> FALSE,
   token |-> <<>>, currentRecord |-> undefined, records |-> <<>>,
   columns |-> <<>>, rows |-> <<>>]

\* loadTable(path, ...options): the separator from the extension of path
\* and from the options 'csv' and 'tsv', of which a second one throws; then
\* the request, of which the success callback is entered with the text resp
loadTable(Requests) ==
  /\ table.pc = "idle"
  /\ UNCHANGED <<cache, uMVMatrix, lastCall, created, calls, http>>
  /\ \E request \in Requests :
       LET options == request.options
           separators == {i \in 1..Len(options) : options[i] \in {"csv", "tsv"}}
           sep == IF separators = {}
                  THEN (IF request.ext = "tsv" THEN "\t" ELSE ",")
                  ELSE IF options[CHOOSE i \in separators : TRUE] = "tsv"
                       THEN "\t" ELSE ","
       IN table' =
            IF Cardinality(separators) > 1
            THEN [table EXCEPT !.pc = "threw",
                               !.error = "Cannot set multiple separator types."]
            ELSE [table EXCEPT
                    !.pc = "loop",
                    !.sep = sep,
                    !.header = \E i \in 1..Len(options) : options[i] = "header",
                    !.resp = request.resp]

\* one iteration of for (;;) in the success callback, and on the break the
\* rest of the callback: the column names and the rows
tokenizerIteration(st) ==
  LET PRE_TOKEN == 0
      MID_TOKEN == 1
      POST_TOKEN == 2
      POST_RECORD == 4
      QUOTE == "\""
      CR == "\r"
      LF == "\n"
      charAt(i) == IF i < Len(st.resp) THEN Some(At(st.resp, i)) ELSE undefined
      currentChar == charAt(st.offset)
      offset == st.offset + 1
      read == [st EXCEPT !.offset = offset]
      tokenEnd(s) ==
        [s EXCEPT !.currentRecord = Some(Append(Val(s.currentRecord), s.token)),
                  !.currentState = Some(PRE_TOKEN),
                  !.token = <<>>]
      recordEnd(s) ==
        [s EXCEPT !.currentState = Some(POST_RECORD),
                  !.records = Append(s.records, Val(s.currentRecord)),
                  !.currentRecord = undefined]
      setUp(s) ==
        LET columns == IF s.header THEN Head(s.records)
                       ELSE [i \in 1..Len(Head(s.records)) |-> <<"null">>]
            records == IF s.header THEN Tail(s.records) ELSE s.records
            kept(r) == ~(Len(r) = 1 /\ r[1] \in {<<"undefined">>, <<>>})
        IN [s EXCEPT !.pc = "done", !.columns = columns, !.records = records,
                     !.rows = SelectSeq(records, kept)]
      begun == IF read.currentRecord = undefined
               THEN [read EXCEPT !.escaped = FALSE,
                                 !.currentRecord = Some(<<>>),
                                 !.currentState = Some(PRE_TOKEN),
                                 !.token = <<>>]
               ELSE read
      opened == IF begun.currentState = Some(PRE_TOKEN)
                THEN [begun EXCEPT !.currentState = Some(MID_TOKEN)]
                ELSE begun
  IN IF currentChar = undefined /\ st.escaped
     THEN [read EXCEPT !.pc = "threw", !.error = "Unclosed quote in file."]
     ELSE IF currentChar = undefined /\ st.currentRecord # undefined
     THEN setUp(recordEnd(tokenEnd(read)))
     ELSE IF begun.currentState = Some(PRE_TOKEN) /\ currentChar = Some(QUOTE)
     THEN [begun EXCEPT !.escaped = TRUE, !.currentState = Some(MID_TOKEN)]
     ELSE IF opened.currentState = Some(MID_TOKEN) /\ opened.escaped
     THEN (IF currentChar = Some(QUOTE)
           THEN (IF charAt(offset) = Some(QUOTE)
                 THEN [opened EXCEPT !.token = Append(@, QUOTE),
                                     !.offset = offset + 1]
                 ELSE [opened EXCEPT !.escaped = FALSE,
                                     !.currentState = Some(POST_TOKEN)])
           ELSE IF currentChar = Some(CR) THEN opened
           ELSE [opened EXCEPT !.token = Append(@, Val(currentChar))])
     ELSE IF currentChar = Some(CR)
     THEN recordEnd(tokenEnd(IF charAt(offset) = Some(LF)
                             THEN [opened EXCEPT !.offset = offset + 1]
                             ELSE opened))
     ELSE IF currentChar = Some(LF) THEN recordEnd(tokenEnd(opened))
     ELSE IF currentChar = Some(st.sep) THEN tokenEnd(opened)
     ELSE IF opened.currentState = Some(MID_TOKEN)
     THEN [opened EXCEPT !.token =
             Append(@, IF currentChar = undefined THEN "undefined"
                       ELSE Val(currentChar))]
     ELSE opened

\* the iteration that ends on a thrown error goes on to the rows instead
tokenizerLoopUnthrown ==
  /\ table.pc = "loop"
  /\ UNCHANGED <<cache, uMVMatrix, lastCall, created, calls, http>>
  /\ table' = IF tokenizerIteration(table).pc = "threw"
              THEN [tokenizerIteration(table) EXCEPT !.pc = "done", !.error = ""]
              ELSE tokenizerIteration(table)

\* the loop of the success callback, an iteration at a time
tokenizerLoop ==
  /\ table.pc = "loop"
  /\ UNCHANGED <<cache, uMVMatrix, lastCall, created, calls, http>>
  /\ table' = tokenizerIteration(table)

(***************************************************************************)
(* The calls a sketch makes: for each primitive, the argument lists drawn  *)
(* from; an argument is Some(value), or undefined when it is not passed.   *)
(***************************************************************************)
(***************************************************************************)
(* The calls of the sketch.  The ...Requests sets are the calls of a       *)
(* sketch that calls several primitives in turn; the ...First sets are     *)
(* wider and are used for the first call on an empty cache.                *)
(***************************************************************************)
PlaneRequests ==
  {[width |-> undefined, height |-> undefined, detailX |-> undefined, detailY |-> undefined],
   [width |-> Some(20), height |-> Some(30), detailX |-> Some(1), detailY |-> Some(1)],
   [width |-> Some(50), height |-> Some(50), detailX |-> Some(2), detailY |-> Some(1)]}

BoxRequests ==
  {[width |-> undefined, height |-> undefined, depth |-> undefined,
    detailX |-> undefined, detailY |-> undefined, perPixelLighting |-> FALSE],
   [width |-> Some(20), height |-> Some(30), depth |-> Some(40),
    detailX |-> Some(4), detailY |-> Some(4), perPixelLighting |-> FALSE],
   [width |-> Some(50), height |-> undefined, depth |-> undefined,
    detailX |-> Some(5), detailY |-> Some(4), perPixelLighting |-> FALSE]}

SphereRequests ==
  {[radius |-> Some(40), detailX |-> Some(3), detailY |-> Some(2)]}

CylinderRequests ==
  {[radius |-> Some(20), height |-> Some(50), detailX |-> Some(3), detailY |-> Some(1),
    bottomCap |-> Some(TRUE), topCap |-> Some(TRUE)],
   [radius |-> undefined, height |-> undefined, detailX |-> Some(3), detailY |-> Some(1),
    bottomCap |-> undefined, topCap |-> undefined]}

ConeRequests ==
  {[radius |-> Some(40), height |-> Some(70), detailX |-> Some(3), detailY |-> Some(1),
    cap |-> undefined],
   [radius |-> Some(10), height |-> Some(10), detailX |-> Some(3), detailY |-> Some(1),
    cap |-> Some(TRUE)]}

EllipsoidRequests ==
  {[radiusX |-> Some(20), radiusY |-> Some(30), radiusZ |-> Some(40),
    detailX |-> Some(3), detailY |-> Some(2)]}

TorusRequests ==
  {[radius |-> Some(50), tubeRadius |-> Some(15), detailX |-> Some(3), detailY |-> Some(2)],
   [radius |-> Some(100), tubeRadius |-> Some(30), detailX |-> Some(3), detailY |-> Some(2)],
   [radius |-> Some(100000), tubeRadius |-> Some(30004), detailX |-> Some(3), detailY |-> Some(2)],
   [radius |-> Some(100000), tubeRadius |-> Some(30006), detailX |-> Some(3), detailY |-> Some(2)],
   [radius |-> Some(0), tubeRadius |-> Some(15), detailX |-> Some(3), detailY |-> Some(2)],
   [radius |-> Some(50), tubeRadius |-> Some(0), detailX |-> Some(3), detailY |-> Some(2)]}

IcosphereRequests ==
  {[radiusX |-> Some(20), radiusY |-> Some(30), radiusZ |-> Some(40), detail |-> Some(0)],
   [radiusX |-> undefined, radiusY |-> undefined, radiusZ |-> undefined, detail |-> Some(0)]}

TriangleRequests ==
  {[x1 |-> 0, y1 |-> 0, x2 |-> 10, y2 |-> 0, x3 |-> 0, y3 |-> 10],
   [x1 |-> 3, y1 |-> 4, x2 |-> 7, y2 |-> 5, x3 |-> 2, y3 |-> 9]}

EllipseRequests ==
  {[x |-> 5, y |-> 6, width |-> 30, height |-> 30, detail |-> Some(3)]}

ArcRequests ==
  {[x |-> 0, y |-> 0, width |-> 20, height |-> 10,
    start |-> <<0, 0>>, stop |-> <<2, 0>>, mode |-> Some("pie"), detail |-> Some(2)],
   [x |-> 0, y |-> 0, width |-> 20, height |-> 10,
    start |-> <<1, 0>>, stop |-> <<1, 0>>, mode |-> Some("chord"), detail |-> Some(2)],
   [x |-> 0, y |-> 0, width |-> 20, height |-> 10,
    start |-> <<1, 0>>, stop |-> <<9, 0>>, mode |-> undefined, detail |-> Some(3)]}

RectRequests ==
  {[x |-> 0, y |-> 0, width |-> 20, height |-> 10,
    detailX |-> Some(2), detailY |-> Some(1), perPixelLighting |-> FALSE],
   [x |-> 5, y |-> 6, width |-> 30, height |-> 40,
    detailX |-> Some(2), detailY |-> Some(1), perPixelLighting |-> TRUE]}

QuadRequests ==
  {[x1 |-> 0, y1 |-> 0, x2 |-> 10, y2 |-> 0, x3 |-> 10, y3 |-> 10, x4 |-> 0, y4 |-> 10],
   [x1 |-> 0, y1 |-> 0, x2 |-> 20, y2 |-> 5, x3 |-> 10, y3 |-> 10, x4 |-> 0, y4 |-> 10]}

\* an optional argument: left out, or one of vs
Optional(vs) == {undefined} \cup {Some(v) : v \in vs}

\* pairs of detail arguments: small ones, the defaults, and those at and
\* just above the ceilings (cx, cy) of the stroke edges
DetailPairs(sx, sy, cx, cy) ==
  {<<Some(p[1]), Some(p[2])>> :
     p \in {<<sx, sy>>, <<cx, sy>>, <<cx + 1, sy>>, <<sx, cy>>, <<sx, cy + 1>>, <<cx, cy>>}}
  \cup {<<undefined, undefined>>}

PlaneFirst ==
  {[width |-> w, height |-> w, detailX |-> dx, detailY |-> dy] :
     w \in Optional({20}), dx \in Optional({1, 2}), dy \in Optional({1, 2})}

BoxFirst ==
  {[width |-> w, height |-> undefined, depth |-> w, detailX |-> dx, detailY |-> dy,
    perPixelLighting |-> ppl] :
     w \in Optional({20}), dx \in Optional({1, 4, 5}), dy \in Optional({4, 5}),
     ppl \in BOOLEAN}

SphereFirst ==
  {[radius |-> r, detailX |-> Some(3), detailY |-> Some(2)] : r \in Optional({40})}
  \cup {[radius |-> undefined, detailX |-> undefined, detailY |-> undefined]}

CylinderFirst ==
  {[radius |-> r, height |-> r, detailX |-> Some(dx), detailY |-> Some(dy),
    bottomCap |-> bc, topCap |-> tc] :
     r \in Optional({20}), dx \in {1, 3}, dy \in {1, 2},
     bc \in Optional(BOOLEAN), tc \in Optional(BOOLEAN)}
  \cup
  {[radius |-> Some(20), height |-> Some(50), detailX |-> d[1], detailY |-> d[2],
    bottomCap |-> undefined, topCap |-> undefined] : d \in DetailPairs(3, 1, 24, 16)}
  \cup
  {[radius |-> Some(20), height |-> Some(50), detailX |-> Some(24), detailY |-> Some(1),
    bottomCap |-> Some(TRUE), topCap |-> Some(TRUE)]}
  \cup
  {[radius |-> Some(20), height |-> Some(50), detailX |-> Some(dx), detailY |-> Some(dy),
    bottomCap |-> undefined, topCap |-> undefined] : dx \in {-1, 0, 2}, dy \in {-1, 0, 1}}

ConeFirst ==
  {[radius |-> r, height |-> r, detailX |-> Some(dx), detailY |-> Some(dy), cap |-> c] :
     r \in Optional({40}), dx \in {1, 3}, dy \in {1, 2}, c \in Optional(BOOLEAN)}
  \cup
  {[radius |-> Some(40), height |-> Some(70), detailX |-> d[1], detailY |-> d[2],
    cap |-> undefined] : d \in DetailPairs(3, 1, 24, 16)}
  \cup
  {[radius |-> Some(40), height |-> Some(70), detailX |-> Some(dx), detailY |-> Some(dy),
    cap |-> undefined] : dx \in {-1, 0, 2}, dy \in {-1, 0, 1}}

EllipsoidFirst ==
  {[radiusX |-> r, radiusY |-> undefined, radiusZ |-> r,
    detailX |-> Some(2), detailY |-> Some(2)] : r \in Optional({20})}
  \cup
  {[radiusX |-> Some(20), radiusY |-> Some(30), radiusZ |-> Some(40),
    detailX |-> d[1], detailY |-> d[2]] : d \in DetailPairs(2, 2, 24, 24)}

TorusFirst ==
  {[radius |-> r, tubeRadius |-> t, detailX |-> Some(3), detailY |-> Some(2)] :
     r \in Optional({0, 50, 100}), t \in Optional({0, 15, 30})}
  \cup
  {[radius |-> r, tubeRadius |-> undefined, detailX |-> d[1], detailY |-> d[2]] :
     r \in {Some(0), Some(50)}, d \in DetailPairs(3, 2, 24, 16)}

IcosphereFirst ==
  {[radiusX |-> r, radiusY |-> undefined, radiusZ |-> r, detail |-> d] :
     r \in Optional({20}), d \in {Some(0), Some(1)}}
  \cup
  {[radiusX |-> Some(20), radiusY |-> Some(30), radiusZ |-> Some(40), detail |-> d] :
     d \in Optional({2})}

TriangleFirst ==
  {[x1 |-> x, y1 |-> 0, x2 |-> 10, y2 |-> y, x3 |-> 0, y3 |-> 10] :
     x \in {0, 3}, y \in {0, 5}}

EllipseFirst ==
  {[x |-> 5, y |-> 6, width |-> w, height |-> 30, detail |-> d] :
     w \in {20, 30}, d \in Optional({1, 3, 50, 51})}

\* start and stop angles: a quarter turn, none, a full turn, more than one,
\* and two angles 10^-11 apart
ArcAngles ==
  {<<(<<0, 0>>), (<<2, 0>>)>>, <<(<<1, 0>>), (<<1, 0>>)>>,
   <<(<<0, 0>>), (<<0, 0>>)>>, <<(<<1, 0>>), (<<9, 0>>)>>,
   <<(<<0, 0>>), (<<3, 0>>)>>, <<(<<1, 0>>), (<<1, 1>>)>>}

ArcFirst ==
  {[x |-> 0, y |-> 0, width |-> 20, height |-> 10,
    start |-> ss[1], stop |-> ss[2], mode |-> m, detail |-> d] :
     ss \in ArcAngles, m \in Optional({"pie", "chord", "open"}),
     d \in Optional({1, 2, 50, 51})}

RectFirst ==
  {[x |-> 0, y |-> 0, width |-> w, height |-> 10, detailX |-> dx, detailY |-> dy,
    perPixelLighting |-> ppl] :
     w \in {20, 30}, dx \in Optional({1, 2}), dy \in Optional({1, 3}), ppl \in BOOLEAN}

QuadFirst ==
  {[x1 |-> x, y1 |-> 0, x2 |-> 10, y2 |-> 0, x3 |-> 10, y3 |-> 10, x4 |-> 0, y4 |-> y] :
     x \in {0, 1}, y \in {10, 12}}

\* the transforms in force when the first primitive is called
InitialMatrices ==
  {Identity, <<2, 0, 0, 0,  0, 2, 0, 0,  0, 0, 1, 0,  10, 20, 0, 1>>}

NoCall ==
  [op |-> "none", args |-> <<>>, gId |-> undefined, built |-> FALSE, draw |-> <<>>,
   threw |-> FALSE, returned |-> "nothing", before |-> Identity,
   tubeRatio |-> undefined]

Init ==
  /\ cache = <<>>
  /\ created = <<>>
  /\ uMVMatrix = Identity
  /\ lastCall = NoCall
  /\ calls = 0
  /\ http = HttpIdle
  /\ table = TableIdle

\* a sketch calling primitives in turn
Next ==
  \/ plane(PlaneRequests)
  \/ box(BoxRequests)
  \/ sphere(SphereRequests)
  \/ cylinder(CylinderRequests)
  \/ cone(ConeRequests)
  \/ ellipsoid(EllipsoidRequests)
  \/ torus(TorusRequests)
  \/ icosphere(IcosphereRequests)
  \/ triangle(TriangleRequests)
  \/ ellipse(EllipseRequests)
  \/ arc(ArcRequests)
  \/ rect(RectRequests)
  \/ quad(QuadRequests)

Spec == Init /\ [][Next]_vars

\* the first call of a sketch, with a transform in force or none, on the
\* empty cache
InitFirst ==
  /\ cache = <<>>
  /\ created = <<>>
  /\ uMVMatrix \in InitialMatrices
  /\ lastCall = [NoCall EXCEPT !.before = uMVMatrix]
  /\ calls = 0
  /\ http = HttpIdle
  /\ table = TableIdle

NextFirst ==
  /\ calls = 0
  /\ \/ plane(PlaneFirst)
     \/ box(BoxFirst)
     \/ sphere(SphereFirst)
     \/ cylinder(CylinderFirst)
     \/ cone(ConeFirst)
     \/ ellipsoid(EllipsoidFirst)
     \/ torus(TorusFirst)
     \/ icosphere(IcosphereFirst)
     \/ triangle(TriangleFirst)
     \/ ellipse(EllipseFirst)
     \/ arc(ArcFirst)
     \/ rect(RectFirst)
     \/ quad(QuadFirst)

SpecFirst == InitFirst /\ [][NextFirst]_vars

\* the calls of httpDo, each a list of arguments
HttpRequests ==
  LET onData == JsValue("function", "onData")
      onError == JsValue("function", "onError")
      S(v) == JsValue("string", v)
  IN {<<S("json.xml")>>,
      <<S("data.json"), onData>>,
      <<S("data.json"), onData, onError>>,
      <<S("feed.xml"), S("GET"), onData, onError>>,
      <<S("notes.txt"), onData, S("binary"), onError>>,
      <<S("notes.txt"), S("POST"), S("json"),
        JsValue("object", "record"), onData, onError>>,
      <<S("notes.txt"), S("PUT"), S("arrayBuffer"),
        JsValue("number", "7"), onData, onError>>,
      <<S("feed.xml"), S("POST"), S("text"), S("payload"), onData, onError>>,
      <<S("api"), S("jsonp"), JsValue("object", "jsonpOptions"),
        onData, onError>>,
      <<S("data.json"), JsValue("object", "init")>>,
      <<S("feed.xml"), JsValue("object", "init"), onData>>,
      <<S("notes.txt"), JsValue("object", "init"),
        onData, onError>>}

\* one request of a sketch, from the call of httpDo to the last reaction
NextHttp ==
  \/ httpDo(HttpRequests)
  \/ fetchSettles
  \/ promiseThen
  \/ bodySettles
  \/ thenCallback
  \/ catchErrorCallback

SpecHttp == Init /\ [][NextHttp]_vars

\* the longest response text
MaxText == 3

\* the calls of loadTable: every text of up to MaxText characters of a csv
\* file, and a few texts with the other extension and with options
TableRequests ==
  LET Chars == {"\"", "\r", "\n", ",", "\t", "a"}
  IN {[ext |-> "csv", options |-> <<>>, resp |-> t] :
        t \in UNION {[1..k -> Chars] : k \in 0..MaxText}}
     \cup
     {[ext |-> e, options |-> o, resp |-> t] :
        e \in {"csv", "tsv"},
        o \in {<<"header">>, <<"tsv">>, <<"csv", "header">>, <<"csv", "tsv">>},
        t \in {<<"a", "\t", "a">>, <<"a", ",", "a", "\n", "a", ",", "a", "\n">>}}

\* one call of loadTable, run to its end: the loop is left to no other code
\* while it runs
NextTable ==
  \/ loadTable(TableRequests)
  \/ tokenizerLoop

SpecTable == Init /\ [][NextTable]_vars /\ WF_vars(tokenizerLoop)


(***************************************************************************)
(* The properties.                                                         *)
(***************************************************************************)
\* the mesh the last call drew
DrawnKey == Val(lastCall.gId)

\* C1: two calls that compute the same key use the one stored mesh.  The
\* builder and createBuffers run for the first of them only: a call whose key
\* is in the cache builds nothing and leaves cache and created as they are,
\* createBuffers has run exactly once for every key, and no call, whatever
\* its key, changes a mesh that is stored.
CacheIdempotence ==
  [][/\ \A k \in DOMAIN cache :
          /\ k \in DOMAIN cache' /\ cache'[k] = cache[k]
          /\ lastCall'.gId = Some(k) =>
                ~lastCall'.built /\ cache' = cache /\ created' = created
     /\ DOMAIN created' = DOMAIN cache'
     /\ \A k \in DOMAIN created' : created'[k] = 1]_vars

\* a second call has found the mesh of its key in the cache
SecondCallHit ==
  /\ calls = 2
  /\ lastCall.gId # undefined
  /\ ~lastCall.built
  /\ DrawnKey \in DOMAIN cache
  /\ created[DrawnKey] = 1

\* C2: the cache starts empty and only grows: a key that is stored stays,
\* with the mesh first stored under it.
CacheOnlyGrows ==
  /\ cache = <<>>
  /\ [][\A k \in DOMAIN cache : k \in DOMAIN cache' /\ cache'[k] = cache[k]]_vars

\* a second key has been stored next to the first
CacheGrew ==
  /\ Cardinality(DOMAIN cache) = 2
  /\ lastCall.built

\* the requests that differ from request a of primitive op in size or
\* position arguments only
Resized(op, a) ==
  LET sizes == {undefined, Some(20), Some(70)}
      at == {0, 5}
  IN CASE op = "plane" ->
            {[a EXCEPT !.width = w, !.height = h] : w \in sizes, h \in sizes}
       [] op = "box" ->
            {[a EXCEPT !.width = w, !.height = h, !.depth = w] : w \in sizes, h \in sizes}
       [] op \in {"cylinder", "cone"} ->
            {[a EXCEPT !.radius = w, !.height = h] : w \in sizes, h \in sizes}
       [] op = "sphere" ->
            {[a EXCEPT !.radius = w] : w \in sizes}
       [] op \in {"ellipsoid", "icosphere"} ->
            {[a EXCEPT !.radiusX = w, !.radiusY = h, !.radiusZ = w] :
               w \in sizes, h \in sizes}
       [] op = "rect" ->
            {[a EXCEPT !.x = x, !.y = x, !.width = Val(w), !.height = Val(h)] :
               x \in at, w \in sizes \ {undefined}, h \in sizes \ {undefined}}
       [] op = "triangle" ->
            {[a EXCEPT !.x1 = x, !.y2 = y, !.x3 = y] : x \in at, y \in at}
       [] OTHER -> {}

\* the key a request of primitive op computes
KeyOf(op, a) ==
  CASE op = "plane" -> planeGId(planeArgs(a))
    [] op = "box" -> boxGId(boxArgs(a))
    [] op = "cylinder" -> cylinderGId(cylinderArgs(a))
    [] op = "cone" -> coneGId(coneArgs(a))
    [] op = "sphere" -> ellipsoidGId(ellipsoidArgs(sphereArgs(a)))
    [] op = "ellipsoid" -> ellipsoidGId(ellipsoidArgs(a))
    [] op = "icosphere" -> icosphereGId(icosphereArgs(a))
    [] op = "rect" -> rectGId(rectArgs(a))
    [] op = "triangle" -> triangleGId

\* the mesh a request of primitive op builds
MeshOf(op, a) ==
  CASE op = "plane" -> planeGeom(planeArgs(a))
    [] op = "box" -> boxGeom(boxArgs(a))
    [] op = "cylinder" -> cylinderGeom(cylinderArgs(a))
    [] op = "cone" -> coneGeom(coneArgs(a))
    [] op = "sphere" -> ellipsoidGeom(ellipsoidArgs(sphereArgs(a)))
    [] op = "ellipsoid" -> ellipsoidGeom(ellipsoidArgs(a))
    [] op = "icosphere" -> icosphereGeom(icosphereArgs(a))
    [] op = "rect" -> rectGeom(rectArgs(a))
    [] op = "triangle" -> triangleGeom

\* C3: for plane, box, cylinder, cone, ellipsoid, sphere, icosphere, rect
\* and triangle, a call that differs from the last one in size or position
\* arguments only computes the key of the last call and would build the mesh
\* stored under it.
SizeIsNotInTheKey ==
  \A b \in Resized(lastCall.op, lastCall.args) :
    /\ Some(KeyOf(lastCall.op, b)) = lastCall.gId
    /\ MeshOf(lastCall.op, b) = cache[DrawnKey]

\* a cylinder call has drawn a stored mesh with a scale of its own, one
\* that a resized call would not use
ResizedCallHit ==
  /\ lastCall.op = "cylinder"
  /\ ~lastCall.built
  /\ lastCall.draw[1].scale = <<20, 50, 20>>
  /\ \E b \in Resized("cylinder", lastCall.args) : cylinderArgs(b).radius = 70

\* C4: a draw is issued for a key that is in the cache only.
DrawsOnlyStored ==
  \A n \in 1..Len(lastCall.draw) : lastCall.draw[n].gId \in DOMAIN cache

\* a call has built its mesh and then drawn it
BuiltThenDrawn ==
  /\ lastCall.built
  /\ Len(lastCall.draw) = 1
  /\ lastCall.draw[1].gId = DrawnKey
  /\ DrawnKey \in DOMAIN cache

\* whether the details of the last call are within the ceilings of its
\* primitive
WithinCeiling ==
  LET op == lastCall.op
      a == lastCall.args
      within(d, cx, cy) == d.detailX <= cx /\ d.detailY <= cy
  IN CASE op = "plane" -> within(planeArgs(a), 1, 1)
       [] op = "box" -> within(boxArgs(a), 4, 4)
       [] op = "cylinder" -> within(cylinderArgs(a), 24, 16)
       [] op = "cone" -> within(coneArgs(a), 24, 16)
       [] op = "torus" -> within(torusArgs(a), 24, 16)
       [] op = "ellipsoid" -> within(ellipsoidArgs(a), 24, 24)
       [] op = "sphere" -> within(ellipsoidArgs(sphereArgs(a)), 24, 24)
       [] op = "arc" -> arcDetail(a) <= 50
       [] op = "ellipse" -> arcDetail(ellipseArgs(a)) <= 50

\* what the builder of the last call produces: its vertices and its faces
Built ==
  LET op == lastCall.op
      a == lastCall.args
      new(d) == NewGeometry(d.detailX, d.detailY)
      frustum(d, top, bottomCap, topCap) ==
        _truncatedCone(new(d), 1, top, 1, d.detailX, d.detailY, bottomCap, topCap)
      arcOf(r) == _arc(NewGeometry(arcDetail(r), 1), r.start, r.stop, r.mode, arcDetail(r))
  IN CASE op = "plane" -> computeFaces(_plane(new(planeArgs(a))))
       [] op = "box" -> _box(new(boxArgs(a)))
       [] op = "cylinder" ->
            frustum(cylinderArgs(a), 1, Some(cylinderArgs(a).bottomCap),
                 Some(cylinderArgs(a).topCap))
       [] op = "cone" -> frustum(coneArgs(a), 0, Some(coneArgs(a).cap), Some(FALSE))
       [] op = "torus" ->
            computeFaces(_torus(new(torusArgs(a)), torusArgs(a).tubeRatio))
       [] op = "ellipsoid" -> computeFaces(_ellipsoid(new(ellipsoidArgs(a))))
       [] op = "sphere" ->
            computeFaces(_ellipsoid(new(ellipsoidArgs(sphereArgs(a)))))
       [] op = "arc" -> arcOf(a)
       [] op = "ellipse" -> arcOf(ellipseArgs(a))

\* the primitives with a ceiling
Ceilinged ==
  {"plane", "box", "cylinder", "cone", "torus", "ellipsoid", "sphere", "arc", "ellipse"}

\* C5: the mesh a call of plane, box, cylinder, cone, torus, ellipsoid,
\* sphere, arc or ellipse stores has the vertices and the faces of its
\* builder; with every detail within the ceiling its edges are those of the
\* edge extraction, and above the ceiling its edge list is empty, and still
\* the mesh is stored under the key and the call gets to draw it.
StrokesUpToTheCeiling ==
  (lastCall.op \in Ceilinged /\ lastCall.built) =>
    LET mesh == cache[DrawnKey]
    IN /\ mesh.vertices = Built.vertices
       /\ mesh.faces = Built.faces
       /\ Len(lastCall.draw) = 1 /\ lastCall.draw[1].gId = DrawnKey
       /\ IF WithinCeiling
          THEN /\ mesh.edges = _makeTriangleEdges(mesh).edges
               /\ mesh.lineVertices = _edgesToVertices(mesh).lineVertices
          ELSE /\ mesh.edges = <<>>
               /\ mesh.lineVertices = <<>>

\* an ellipsoid with 25 rows is stored and drawn, with faces and no edges,
\* and one with 24 has edges
AboveTheCeiling ==
  /\ lastCall.op = "ellipsoid"
  /\ ellipsoidArgs(lastCall.args).detailY = 25
  /\ ~WithinCeiling
  /\ Len(cache[DrawnKey].faces) = 2 * 2 * 25
  /\ cache[DrawnKey].edges = <<>>
  /\ lastCall.draw[1].gId = DrawnKey

\* C6 as stated: every box mesh has 24 vertices, 12 faces and 12 edges,
\* whatever detailX and detailY are.
BoxAlwaysTwelveEdges ==
  lastCall.op = "box" =>
    /\ Len(cache[DrawnKey].vertices) = 24
    /\ Len(cache[DrawnKey].faces) = 12
    /\ Len(cache[DrawnKey].edges) = 12

\* C6: every box mesh has 24 vertices and 12 faces, whatever the arguments
\* of box; it has 12 edges when detailX and detailY are at most 4, and no
\* edge otherwise.
BoxCounts ==
  lastCall.op = "box" =>
    /\ Len(cache[DrawnKey].vertices) = 24
    /\ Len(cache[DrawnKey].faces) = 12
    /\ Len(cache[DrawnKey].edges) =
         IF boxArgs(lastCall.args).detailX <= 4 /\ boxArgs(lastCall.args).detailY <= 4
         THEN 12 ELSE 0

\* a box called with detailX 5 is stored with its 24 vertices and no edge
BoxAboveTheCeiling ==
  /\ lastCall.op = "box"
  /\ lastCall.args.detailX = Some(5)
  /\ Len(cache[DrawnKey].vertices) = 24
  /\ cache[DrawnKey].edges = <<>>

\* a torus call with a radius or a tube radius of zero
ZeroTorus(c) ==
  /\ c.op = "torus"
  /\ c.args.radius = Some(0) \/ c.args.tubeRadius = Some(0)

\* C7: a torus call with a zero radius or a zero tube radius does nothing,
\* whatever the cache holds: it builds no geometry, stores nothing, draws
\* nothing, computes no ratio and throws nothing.
ZeroTorusIsNoOp ==
  [][ZeroTorus(lastCall') =>
       /\ cache' = cache /\ created' = created /\ uMVMatrix' = uMVMatrix
       /\ lastCall'.gId = undefined
       /\ ~lastCall'.built
       /\ lastCall'.draw = <<>>
       /\ lastCall'.tubeRatio = undefined
       /\ ~lastCall'.threw]_vars

\* a torus with tube radius zero was called on a cache that holds a mesh
ZeroTubeOnFilledCache ==
  /\ ZeroTorus(lastCall)
  /\ lastCall.args.radius = Some(50)
  /\ Cardinality(DOMAIN cache) = 1

\* C8: an arc call whose start and stop are the same angle stores a mesh
\* with no vertex, no face and no edge, in every mode and for every detail;
\* the call gets to its draw, and uMVMatrix is afterwards what it was before
\* the call.
EmptyArc ==
  (lastCall.op = "arc" /\ lastCall.args.start = lastCall.args.stop) =>
    /\ lastCall.built
    /\ cache[DrawnKey].vertices = <<>>
    /\ cache[DrawnKey].faces = <<>>
    /\ cache[DrawnKey].edges = <<>>
    /\ Len(lastCall.draw) = 1
    /\ uMVMatrix = lastCall.before

\* an arc from pi/4 to pi/4 in mode CHORD, with a transform in force, whose
\* draw threw
EmptyChord ==
  /\ lastCall.op = "arc"
  /\ lastCall.args.start = <<1, 0>> /\ lastCall.args.stop = <<1, 0>>
  /\ lastCall.args.mode = Some("chord")
  /\ lastCall.threw
  /\ lastCall.before # Identity
  /\ lastCall.draw[1].uMVMatrix # lastCall.before
  /\ cache[DrawnKey].vertices = <<>>

\* C9: a call of triangle, arc, ellipse or rect leaves uMVMatrix as it found
\* it, whether its draw returned or threw.
TransformRestored ==
  [][lastCall'.op \in {"triangle", "arc", "ellipse", "rect"} =>
       uMVMatrix' = uMVMatrix]_vars

\* the draw of a triangle threw, under a matrix that was not the one the
\* call found, and uMVMatrix is the one the call found
RestoredAfterThrow ==
  /\ lastCall.op = "triangle"
  /\ lastCall.threw
  /\ lastCall.draw[1].uMVMatrix # lastCall.before
  /\ uMVMatrix = lastCall.before

\* every face and every edge of mesh names vertices of mesh
ValidIndices(mesh) ==
  LET valid(i) == 0 <= i /\ i < Len(mesh.vertices)
  IN /\ \A n \in 1..Len(mesh.faces) : \A q \in 1..3 : valid(mesh.faces[n][q])
     /\ \A n \in 1..Len(mesh.edges) : \A q \in 1..2 : valid(mesh.edges[n][q])

\* C10: in every mesh that is stored, every index of every face and of
\* every stroke edge is at least 0 and less than the number of vertices.
IndicesAreValid ==
  \A k \in DOMAIN cache : ValidIndices(cache[k])

\* an icosphere of detail 1 is stored: 42 vertices and 21 copies of them
\* along the seam and at the poles, and a face that uses the last copy
IcosphereWithCopies ==
  /\ lastCall.op = "icosphere"
  /\ Len(cache[DrawnKey].vertices) = 63
  /\ \E n \in 1..Len(cache[DrawnKey].faces) :
       \E q \in 1..3 : cache[DrawnKey].faces[n][q] = 62

\* the primitives whose builder fills a grid
GridShapes == {"plane", "rect", "ellipsoid", "sphere", "torus"}

\* detailX and detailY of the last call, a call of a grid shape
GridDetails ==
  LET op == lastCall.op
      a == lastCall.args
      d == CASE op = "plane" -> planeArgs(a)
             [] op = "rect" -> rectArgs(a)
             [] op = "ellipsoid" -> ellipsoidArgs(a)
             [] op = "sphere" -> ellipsoidArgs(sphereArgs(a))
             [] op = "torus" -> torusArgs(a)
  IN <<d.detailX, d.detailY>>

\* C11: the mesh of a plane, rect, ellipsoid (or sphere) or torus with
\* detailX and detailY at least 1 has (detailX+1)*(detailY+1) vertices and
\* 2*detailX*detailY faces, and the faces of cell (i, j) are, in this order,
\* (v, v+1, v+rowWidth) and (v+rowWidth, v+1, v+rowWidth+1), where
\* rowWidth = detailX+1 and v = i*rowWidth + j.
GridCounts ==
  (lastCall.op \in GridShapes /\ lastCall.gId # undefined) =>
    LET detailX == GridDetails[1]
        detailY == GridDetails[2]
        rowWidth == detailX + 1
        mesh == cache[DrawnKey]
    IN (detailX >= 1 /\ detailY >= 1) =>
         /\ Len(mesh.vertices) = (detailX + 1) * (detailY + 1)
         /\ Len(mesh.faces) = 2 * detailX * detailY
         /\ \A i \in 0..(detailY - 1) : \A j \in 0..(detailX - 1) :
              LET v == i * rowWidth + j
                  n == 2 * (i * detailX + j)
              IN /\ mesh.faces[n + 1] = <<v, v + 1, v + rowWidth>>
                 /\ mesh.faces[n + 2] = <<v + rowWidth, v + 1, v + rowWidth + 1>>

\* a torus of 25 by 2 cells is stored: 78 vertices, 100 faces
TorusGridStored ==
  /\ lastCall.op = "torus"
  /\ lastCall.gId # undefined
  /\ GridDetails = <<25, 2>>
  /\ Len(cache[DrawnKey].vertices) = 78
  /\ cache[DrawnKey].faces[100] = <<76, 51, 77>>

\* the last call is plane()
PlaneWithoutArguments ==
  /\ lastCall.op = "plane"
  /\ lastCall.args = [width |-> undefined, height |-> undefined,
                      detailX |-> undefined, detailY |-> undefined]

\* plane(50, 50, 1, 1)
PlaneFiftyByFifty ==
  [width |-> Some(50), height |-> Some(50), detailX |-> Some(1), detailY |-> Some(1)]

\* the last call, plane(), has the key, the mesh and the draw of
\* plane(50, 50, 1, 1), and its mesh has 4 vertices and 2 faces
PlaneAsFiftyByFifty ==
  /\ lastCall.gId = Some(planeGId(planeArgs(PlaneFiftyByFifty)))
  /\ cache[DrawnKey] = planeGeom(planeArgs(PlaneFiftyByFifty))
  /\ lastCall.draw = <<[drawBuffersScaled(DrawnKey, 50, 50, 1)
                          EXCEPT !.uMVMatrix = lastCall.before]>>
  /\ Len(cache[DrawnKey].vertices) = 4
  /\ Len(cache[DrawnKey].faces) = 2

\* C12 as stated: plane() behaves as plane(50, 50, 1, 1) and its mesh has
\* 4 vertices, 2 faces and 4 edges.
PlaneDefaultsFourEdges ==
  PlaneWithoutArguments =>
    /\ PlaneAsFiftyByFifty
    /\ Len(cache[DrawnKey].edges) = 4

\* C12: plane() behaves as plane(50, 50, 1, 1) and its mesh has 4 vertices,
\* 2 faces and 5 distinct undirected edges: the four sides of the square and
\* the diagonal that the two triangles share.
PlaneDefaults ==
  PlaneWithoutArguments =>
    /\ PlaneAsFiftyByFifty
    /\ {Undirected(cache[DrawnKey].edges[n]) : n \in 1..Len(cache[DrawnKey].edges)}
         = {<<0, 1>>, <<1, 3>>, <<2, 3>>, <<0, 2>>, <<1, 2>>}

\* plane() was called, under a transform, and its mesh has an edge from
\* vertex 1 to vertex 2, the diagonal
PlaneDiagonalStroked ==
  /\ PlaneWithoutArguments
  /\ lastCall.before # Identity
  /\ \E n \in 1..Len(cache[DrawnKey].edges) :
       Undirected(cache[DrawnKey].edges[n]) = <<1, 2>>

\* cylinder(20, 50, 24, 1, true, true)
CylinderExample ==
  [radius |-> Some(20), height |-> Some(50), detailX |-> Some(24), detailY |-> Some(1),
   bottomCap |-> Some(TRUE), topCap |-> Some(TRUE)]

\* C13 as stated: the mesh of cylinder(20, 50, 24, 1, true, true) has
\* 2*1 + 2*24 vertices: a centre for each cap and two body rings of 24.
CylinderFiftyVertices ==
  (lastCall.op = "cylinder" /\ lastCall.args = CylinderExample) =>
    Len(cache[DrawnKey].vertices) = 2 * 1 + 2 * 24

\* C13: the mesh of cylinder(20, 50, 24, 1, true, true) has both caps and
\* 2*1 + 4*24 = 98 vertices: for each cap its centre and a rim ring of 24
\* vertices, and the detailY+1 = 2 body rings of 24 vertices each; its faces
\* are 24 for each cap and 48 for the side.
CylinderRings ==
  (lastCall.op = "cylinder" /\ lastCall.args = CylinderExample) =>
    LET vs == cache[DrawnKey].vertices
    IN /\ Len(vs) = 2 * 1 + 4 * 24
       /\ vs[1].r = Rat(0, 1) /\ vs[98].r = Rat(0, 1)
       /\ \A n \in 2..97 : vs[n].r = Rat(1, 1)
       /\ \A n \in 1..49 : vs[n].y = Rat(-1, 2)
       /\ \A n \in 50..98 : vs[n].y = Rat(1, 2)
       /\ Len(cache[DrawnKey].faces) = 24 + 48 + 24

\* cylinder(20, 50, 24, 1, true, true) was called and its mesh has the rim
\* ring of the bottom cap, vertices 1..24, below the first body ring
CylinderExampleBuilt ==
  /\ lastCall.op = "cylinder" /\ lastCall.args = CylinderExample
  /\ lastCall.built
  /\ cache[DrawnKey].vertices[2] = cache[DrawnKey].vertices[26]
  /\ cache[DrawnKey].faces[1] = <<0, 2, 1>>

\* the undirected sides of the triangles of faces
EdgeSet(faces) ==
  LET sides == FaceSides(faces)
  IN {Undirected(sides[n]) : n \in 1..Len(sides)}

\* the icosphere at subdivision level n, before the repair of the texture
\* coordinates: 20 * 4^n faces, every edge on two of them, V - E + F = 2
EulerAtLevel(n) ==
  LET refined == icosphereRefined(n)
      V == Len(refined.g.vertices)
      F == Len(refined.faces)
      E == Cardinality(EdgeSet(refined.faces))
  IN /\ F = 20 * (4 ^ n)
     /\ 2 * E = 3 * F
     /\ V - E + F = 2

\* at level n, asking for the midpoint of (b, a) after that of (a, b) gives
\* the same index and adds no vertex, for every side (a, b) of every face
MidPointOnceAtLevel(n) ==
  LET refined == icosphereRefined(n)
      st == [g |-> refined.g, midPointIndexCache |-> <<>>, ret |-> 0]
  IN \A e \in EdgeSet(refined.faces) :
       LET s1 == midPoint(st, e[1], e[2])
           s2 == midPoint(s1, e[2], e[1])
       IN /\ s1.ret = Len(refined.g.vertices)
          /\ s2.ret = s1.ret
          /\ s2.g = s1.g

\* C14: before the repair of the texture coordinates, the icosphere has at
\* every level n from 0 to its detail 20 * 4^n faces and V - E + F = 2; the
\* midpoint of (i, j) and that of (j, i) are one vertex, created once.
IcosphereEuler ==
  lastCall.op = "icosphere" =>
    \A n \in 0..icosphereArgs(lastCall.args).detail :
      EulerAtLevel(n) /\ MidPointOnceAtLevel(n)

\* an icosphere of detail 2 was built: 162 vertices, 480 edges and 320
\* faces before the repair
IcosphereTwiceRefined ==
  /\ lastCall.op = "icosphere"
  /\ lastCall.built
  /\ icosphereArgs(lastCall.args).detail = 2
  /\ Len(icosphereRefined(2).g.vertices) = 162
  /\ Cardinality(EdgeSet(icosphereRefined(2).faces)) = 480

\* face straddles the seam: one of its corners has u < 0.25 and one
\* u > 0.75
Straddles(g, face) ==
  /\ \E q \in 1..3 : ULessQuarter(At(g.uvs, face[q])[1])
  /\ \E q \in 1..3 : UMoreThreeQuarters(At(g.uvs, face[q])[1])

\* the corners <<n, q>> of faces that the repair gives a copy: a vertex with
\* u = 0 on a face across the seam, or a pole
CopiedCorners(g, faces) ==
  {c \in (1..Len(faces)) \X (1..3) :
     LET face == faces[c[1]]
         uv == At(g.uvs, face[c[2]])
     IN \/ Straddles(g, face) /\ UIsZero(uv[1])
        \/ VIsPole(uv[2])}

\* the repair of mesh, built from refined: as many faces; the vertices of
\* refined and then one copy for each corner of CopiedCorners, which that
\* corner alone names; every corner at the position it had
RepairAppendsCopies(refined, mesh) ==
  LET V == Len(refined.g.vertices)
      copied == CopiedCorners(refined.g, refined.faces)
  IN /\ Len(mesh.faces) = Len(refined.faces)
     /\ SubSeq(mesh.vertices, 1, V) = refined.g.vertices
     /\ Len(mesh.vertices) = V + Cardinality(copied)
     /\ \A n \in 1..Len(mesh.faces) : \A q \in 1..3 :
          /\ At(mesh.vertices, mesh.faces[n][q]) = At(refined.g.vertices, refined.faces[n][q])
          /\ IF <<n, q>> \in copied
             THEN mesh.faces[n][q] >= V
             ELSE mesh.faces[n][q] = refined.faces[n][q]
     /\ \A c, d \in copied :
          mesh.faces[c[1]][c[2]] = mesh.faces[d[1]][d[2]] => c = d

\* no vertex at a pole is a corner of two faces of mesh
PolesNotShared(mesh) ==
  \A m, n \in 1..Len(mesh.faces) : \A p, q \in 1..3 :
    (mesh.faces[m][p] = mesh.faces[n][q] /\ VIsPole(At(mesh.uvs, mesh.faces[m][p])[2]))
      => m = n

\* C15: the repair of the texture coordinates leaves the number of faces
\* and the position of every face corner as they were; it appends vertices
\* only, one for each face corner that is a vertex with u = 0 of a face
\* across the seam or a vertex at a pole; afterwards no pole vertex is a
\* corner of more than one face.
RepairOnlyAppends ==
  lastCall.op = "icosphere" =>
    /\ RepairAppendsCopies(icosphereRefined(icosphereArgs(lastCall.args).detail),
                           cache[DrawnKey])
    /\ PolesNotShared(cache[DrawnKey])

\* an icosphere of detail 1 was built: 21 corners got a copy, some at a
\* pole and some on the seam
SeamAndPoleCopied ==
  /\ lastCall.op = "icosphere"
  /\ icosphereArgs(lastCall.args).detail = 1
  /\ LET refined == icosphereRefined(1)
         copied == CopiedCorners(refined.g, refined.faces)
         uv(c) == At(refined.g.uvs, refined.faces[c[1]][c[2]])
     IN /\ Cardinality(copied) = 21
        /\ Len(cache[DrawnKey].vertices) = 42 + 21
        /\ \E c \in copied : VIsPole(uv(c)[2])
        /\ \E c \in copied : UIsZero(uv(c)[1])

\* d with detailX raised to 3 and detailY to 1 where they are below
Clamped(d) ==
  [d EXCEPT !.detailX = IF d.detailX < 3 THEN 3 ELSE d.detailX,
            !.detailY = IF d.detailY < 1 THEN 1 ELSE d.detailY]

\* the mesh that the last call, of cylinder or cone, builds for the clamped
\* details
BuiltForClamped ==
  IF lastCall.op = "cylinder"
  THEN cylinderGeom(Clamped(cylinderArgs(lastCall.args)))
  ELSE coneGeom(Clamped(coneArgs(lastCall.args)))

\* C16: a call of cylinder or cone with detailX below 3 or detailY below 1
\* builds, stores and draws a mesh, whose vertices and faces are those built
\* for detailX = 3 and detailY = 1 in their place: rings of 3 vertices, one
\* segment.
DetailsAreClamped ==
  (lastCall.op \in {"cylinder", "cone"}) =>
    /\ lastCall.built
    /\ Len(lastCall.draw) = 1
    /\ cache[DrawnKey].vertices = BuiltForClamped.vertices
    /\ cache[DrawnKey].faces = BuiltForClamped.faces

\* cylinder(20, 50, 0, 0) was called: its mesh has two centres and four
\* rings of 3 vertices, and 3 + 6 + 3 faces
CylinderOfNoDetail ==
  /\ lastCall.op = "cylinder"
  /\ lastCall.args.detailX = Some(0) /\ lastCall.args.detailY = Some(0)
  /\ DrawnKey = <<"cylinder", 0, 0, TRUE, TRUE>>
  /\ Len(cache[DrawnKey].vertices) = 2 + 4 * 3
  /\ Len(cache[DrawnKey].faces) = 12

\* C17: a call of plane, box, sphere, cylinder, cone, ellipsoid or torus
\* that returns returns the sketch it was called on, whatever its
\* arguments, a zero radius or tube radius of torus included.
Chainable ==
  (/\ lastCall.op \in {"plane", "box", "sphere", "cylinder", "cone", "ellipsoid", "torus"}
   /\ ~lastCall.threw)
    => lastCall.returned = "this"

\* the keys of the quad meshes that are stored
QuadKeys == {k \in DOMAIN cache : k[1] = "quad"}

\* the corner points of the quad call with arguments a, as vertices
QuadCorners(a) ==
  <<(<<Rat(a.x1, 1), Rat(a.y1, 1), Rat(0, 1)>>),
    (<<Rat(a.x2, 1), Rat(a.y2, 1), Rat(0, 1)>>),
    (<<Rat(a.x3, 1), Rat(a.y3, 1), Rat(0, 1)>>),
    (<<Rat(a.x4, 1), Rat(a.y4, 1), Rat(0, 1)>>)>>

\* C18 as stated: the cache holds at most one quad mesh, the unit square,
\* whatever quad calls were made, and a quad call draws it under a
\* transform that puts it on the corner points.
QuadOneCanonicalMesh ==
  /\ Cardinality(QuadKeys) <= 1
  /\ \A k \in QuadKeys :
       cache[k].vertices =
         QuadCorners([x1 |-> 0, y1 |-> 0, x2 |-> 1, y2 |-> 0,
                      x3 |-> 1, y3 |-> 1, x4 |-> 0, y4 |-> 1])

\* C18: quad stores one mesh for each tuple of corner points it is called
\* with: the key holds the eight coordinates, the vertices of the mesh are
\* the corner points themselves, and the call draws the mesh under the
\* uMVMatrix it found, with no transform of its own; a call with corner
\* points seen before builds nothing.
QuadPerCorners ==
  /\ \A k \in QuadKeys :
       /\ Len(k) = 9
       /\ cache[k].vertices =
            QuadCorners([x1 |-> k[2], y1 |-> k[3], x2 |-> k[4], y2 |-> k[5],
                         x3 |-> k[6], y3 |-> k[7], x4 |-> k[8], y4 |-> k[9]])
       /\ created[k] = 1
  /\ lastCall.op = "quad" =>
       /\ cache[DrawnKey].vertices = QuadCorners(lastCall.args)
       /\ lastCall.draw = <<drawBuffers(DrawnKey, lastCall.before)>>
       /\ uMVMatrix = lastCall.before

\* two quads with different corner points were drawn: two quad meshes
TwoQuadsStored ==
  /\ lastCall.op = "quad"
  /\ lastCall.built
  /\ Cardinality(QuadKeys) = 2

(***************************************************************************)
(* httpDo: the callbacks and the promise                                   *)
(***************************************************************************)
\* httpDo was given both a success and an error callback
BothCallbacks ==
  /\ http.call # undefined
  /\ Val(http.call).callback # undefined
  /\ Val(http.call).errorCallback # undefined

\* the request has settled and both reactions to the promise have run
HttpDone == http.call # undefined /\ http.jobs = <<>>

\* a response arrived and it is ok
ResponseOk == http.fetched[1] = "resolved" /\ http.fetched[2].ok

\* a response arrived, it is ok and its body was read as the type asks
ResponseRead == ResponseOk /\ http.fetched[2].body = "complete"

\* exactly one call was made, of the success callback with the data the
\* promise resolved with when succeeded, and of the error callback with the
\* reason the promise rejected with otherwise
OneCallbackWhen(succeeded) ==
  /\ Len(http.invoked) = 1
  /\ IF succeeded
     THEN /\ http.invoked[1].fn = Val(Val(http.call).callback)
          /\ http.promise = <<"resolved", http.invoked[1].argument>>
          /\ http.invoked[1].argument[2] = "data"
     ELSE /\ http.invoked[1].fn = Val(Val(http.call).errorCallback)
          /\ http.promise = <<"rejected", http.invoked[1].argument>>

\* C19 as stated: once a request given both callbacks is over, exactly one
\* of them has been invoked, once: the success callback with the parsed
\* data if and only if the response is ok, the error callback otherwise;
\* and the promise is resolved in the first case, rejected in the second.
HttpSuccessIffOk ==
  (BothCallbacks /\ HttpDone) => OneCallbackWhen(ResponseOk)

\* C19, amended: a request given both callbacks never invokes more than one
\* of them, nor one twice, and once it is over exactly one of them has been
\* invoked, once: the success callback, with the data read, if and only if
\* the response is ok and its body could be read as the type asks; the error
\* callback otherwise (no response, a response that is not ok, a body that
\* cannot be read); the promise is resolved in the first case and rejected
\* in the second.
HttpOneCallbackOnce ==
  BothCallbacks =>
    /\ Len(http.invoked) <= 1
    /\ \A n \in 1..Len(http.invoked) :
         http.invoked[n].fn \in Val(http.call).callback
                                \cup Val(http.call).errorCallback
    /\ HttpDone => OneCallbackWhen(ResponseRead)

\* a response that is ok with a body that cannot be read: the error
\* callback was invoked and the promise is rejected
OkResponseUnreadable ==
  /\ BothCallbacks
  /\ HttpDone
  /\ ResponseOk
  /\ ~ResponseRead
  /\ Len(http.invoked) = 1
  /\ http.invoked[1].fn = "onError"
  /\ http.promise[1] = "rejected"

(***************************************************************************)
(* Post-processing and the mesh that is stored                             *)
(***************************************************************************)
\* the primitives whose normals computeNormals computes
NormalComputed ==
  {"plane", "box", "cylinder", "cone", "triangle", "arc", "ellipse", "rect",
   "quad"}

\* C20: the mesh a call stores has the vertices and the faces that were
\* post-processed: its face list was complete when the normals were
\* computed and was not changed afterwards, so that computing the normals
\* of the stored mesh gives the normals it was stored with; for quad and
\* triangle as for the other primitives.
StoredAsPostProcessed ==
  (BuiltThenDrawn /\ lastCall.op \in NormalComputed) =>
     LET mesh == cache[DrawnKey]
     IN /\ Len(mesh.vertexNormals) = Len(mesh.vertices)
        /\ mesh.vertexNormals = computeNormals(mesh).vertexNormals

(***************************************************************************)
(* The key and the mesh                                                    *)
(***************************************************************************)
\* C21: the key determines the mesh: the mesh that a call of plane, box,
\* cylinder, cone, torus, ellipsoid, sphere, arc or ellipse finds or stores
\* under its key, and draws, has the vertices, the faces and the stroke
\* edges that the call's own builder gives, whichever call stored it; also
\* under the key of the ellipse, which arc uses for a full turn or more.
KeyDeterminesMesh ==
  (lastCall.op \in Ceilinged /\ lastCall.gId # undefined
     /\ DrawnKey \in DOMAIN cache) =>
    LET mesh == cache[DrawnKey]
    IN /\ mesh.vertices = Built.vertices
       /\ mesh.faces = Built.faces
       /\ WithinCeiling => mesh.edges = _makeTriangleEdges(Built).edges

(***************************************************************************)
(* The strokes of the box                                                  *)
(***************************************************************************)
\* the coordinates in which the two ends of the stroke pair e of mesh differ
AxesOfStroke(mesh, e) ==
  {c \in 1..3 : At(mesh.vertices, e[1])[c] # At(mesh.vertices, e[2])[c]}

\* the two corner positions that the stroke pair e of mesh joins
CornersOfStroke(mesh, e) == {At(mesh.vertices, e[1]), At(mesh.vertices, e[2])}

\* C22: the 12 stroke edges of a box within the ceiling are the 12 edges of
\* the cube, each once: the two ends of every pair are corners that differ
\* in exactly one coordinate, no two pairs join the same two corners, and
\* each of the three directions has four of them.
BoxStrokesAreCubeEdges ==
  (lastCall.op = "box" /\ lastCall.built /\ WithinCeiling) =>
    LET mesh == cache[DrawnKey]
        strokes == 1..Len(mesh.edges)
    IN /\ Len(mesh.edges) = 12
       /\ \A n \in strokes : Cardinality(AxesOfStroke(mesh, mesh.edges[n])) = 1
       /\ Cardinality({CornersOfStroke(mesh, mesh.edges[n]) : n \in strokes}) = 12
       /\ \A c \in 1..3 :
            Cardinality({n \in strokes : AxesOfStroke(mesh, mesh.edges[n]) = {c}}) = 4

\* a box stored with its strokes: the third pair joins the corners
\* (-1/2, 1/2, 1/2) and (-1/2, 1/2, -1/2)
BoxStroked ==
  /\ lastCall.op = "box"
  /\ lastCall.built
  /\ WithinCeiling
  /\ cache[DrawnKey].edges[3] = <<3, 2>>
  /\ CornersOfStroke(cache[DrawnKey], <<3, 2>>)
       = {<<Rat(-1, 2), Rat(1, 2), Rat(1, 2)>>, <<Rat(-1, 2), Rat(1, 2), Rat(-1, 2)>>}

(***************************************************************************)
(* The faces of the truncated cone                                         *)
(***************************************************************************)
\* the shape of the last call, of cylinder or cone: the details the builder
\* works with, the caps it has and whether its top ring is the apex
ConeShape ==
  IF lastCall.op = "cylinder"
  THEN LET d == Clamped(cylinderArgs(lastCall.args))
       IN [detailX |-> d.detailX, detailY |-> d.detailY,
           bottomCap |-> d.bottomCap, topCap |-> d.topCap, apex |-> FALSE]
  ELSE LET d == Clamped(coneArgs(lastCall.args))
       IN [detailX |-> d.detailX, detailY |-> d.detailY,
           bottomCap |-> d.cap, topCap |-> FALSE, apex |-> TRUE]

\* the indices of the vertices of body ring yy (0 at the bottom, detailY at
\* the top) of a mesh of shape sh
BodyRing(sh, yy) ==
  LET first == (IF sh.bottomCap THEN 1 + sh.detailX ELSE 0) + yy * sh.detailX
  IN IF sh.apex /\ yy = sh.detailY THEN {first}
     ELSE first..(first + sh.detailX - 1)

\* the corners of face n
Corners(faces, n) == {faces[n][1], faces[n][2], faces[n][3]}

\* the faces that join body ring yy to body ring yy + 1
Stitches(faces, sh, yy) ==
  {n \in 1..Len(faces) :
     /\ Corners(faces, n) \subseteq BodyRing(sh, yy) \cup BodyRing(sh, yy + 1)
     /\ Corners(faces, n) \cap BodyRing(sh, yy) # {}
     /\ Corners(faces, n) \cap BodyRing(sh, yy + 1) # {}}

\* the corner sets of a fan of detailX triangles around centre over the
\* ring of detailX vertices that starts at rim
Fan(centre, rim, detailX) ==
  {{centre, rim + j, rim + ((j + 1) % detailX)} : j \in 0..(detailX - 1)}

\* the faces of which centre is a corner
FacesAt(faces, centre) == {n \in 1..Len(faces) : centre \in Corners(faces, n)}

\* C23: in the mesh of a cylinder or a cone, with detailX >= 3 and
\* detailY >= 1 after clamping: two adjacent full body rings are joined by
\* 2*detailX triangles; the ring below the apex of a cone by detailX
\* triangles that all have the apex as a corner; each cap that is present is
\* a fan of detailX triangles, each the cap's centre and two cyclically
\* adjacent vertices of its rim; a cylinder has
\* 2*detailX*detailY + detailX*caps faces and a cone
\* 2*detailX*(detailY - 1) + detailX + detailX*(1 if capped).
ConeFaces ==
  (lastCall.op \in {"cylinder", "cone"} /\ lastCall.built) =>
    LET mesh == cache[DrawnKey]
        faces == mesh.faces
        sh == ConeShape
        dX == sh.detailX
        dY == sh.detailY
        last == Len(mesh.vertices) - 1
        caps == (IF sh.bottomCap THEN 1 ELSE 0) + (IF sh.topCap THEN 1 ELSE 0)
    IN /\ dX >= 3 /\ dY >= 1
       /\ \A yy \in 0..(dY - 1) :
            IF sh.apex /\ yy = dY - 1
            THEN /\ Cardinality(Stitches(faces, sh, yy)) = dX
                 /\ \A n \in Stitches(faces, sh, yy) :
                      BodyRing(sh, dY) \subseteq Corners(faces, n)
            ELSE Cardinality(Stitches(faces, sh, yy)) = 2 * dX
       /\ sh.bottomCap =>
            /\ At(mesh.vertices, 0).r = Rat(0, 1)
            /\ Cardinality(FacesAt(faces, 0)) = dX
            /\ {Corners(faces, n) : n \in FacesAt(faces, 0)} = Fan(0, 1, dX)
       /\ sh.topCap =>
            /\ At(mesh.vertices, last).r = Rat(0, 1)
            /\ Cardinality(FacesAt(faces, last)) = dX
            /\ {Corners(faces, n) : n \in FacesAt(faces, last)}
                 = Fan(last, last - dX, dX)
       /\ Len(faces) = IF sh.apex
                       THEN 2 * dX * (dY - 1) + dX + dX * caps
                       ELSE 2 * dX * dY + dX * caps

\* a capped cone of 3 by 2 is stored: 6 triangles between its two full
\* rings, 3 to the apex, 3 in the cap
ConeWithApexStored ==
  /\ lastCall.op = "cone"
  /\ lastCall.built
  /\ ConeShape = [detailX |-> 3, detailY |-> 2, bottomCap |-> TRUE,
                  topCap |-> FALSE, apex |-> TRUE]
  /\ Cardinality(Stitches(cache[DrawnKey].faces, ConeShape, 0)) = 6
  /\ Cardinality(Stitches(cache[DrawnKey].faces, ConeShape, 1)) = 3
  /\ Len(cache[DrawnKey].faces) = 12

(***************************************************************************)
(* The normals that are stored                                             *)
(***************************************************************************)
\* C24: the mesh a call of ellipsoid, sphere, torus, cylinder or
\* cone stores has one normal per vertex, each the one its builder assigned:
\* the normals are not computed from the faces.
BuilderNormalsKept ==
  (lastCall.op \in {"ellipsoid", "sphere", "torus", "cylinder", "cone"}
     /\ lastCall.built) =>
    /\ Len(cache[DrawnKey].vertexNormals) = Len(cache[DrawnKey].vertices)
    /\ cache[DrawnKey].vertexNormals = Built.vertexNormals

(***************************************************************************)
(* The seam of the icosphere after the repair                              *)
(***************************************************************************)
\* C25: in the mesh that icosphere stores, at every detail, every face that
\* was across the seam has copies with u = 1 in place of its corners with
\* u = 0, and no face is left across the seam, with a corner with u < 0.25
\* and a corner with u > 0.75.
NoFaceAcrossTheSeam ==
  (lastCall.op = "icosphere" /\ lastCall.built) =>
    \A mesh \in {cache[DrawnKey]},
       refined \in {icosphereRefined(icosphereArgs(lastCall.args).detail)} :
      /\ \A n \in 1..Len(mesh.faces) : \A q \in 1..3 :
           (/\ Straddles(refined.g, refined.faces[n])
            /\ UIsZero(At(refined.g.uvs, refined.faces[n][q])[1]))
             => /\ mesh.faces[n][q] >= Len(refined.g.vertices)
                /\ At(mesh.uvs, mesh.faces[n][q])[1] = <<"one">>
      /\ \A n \in 1..Len(mesh.faces) : ~Straddles(mesh, mesh.faces[n])

(***************************************************************************)
(* The strokes of the arc                                                  *)
(***************************************************************************)
\* the mesh of an arc of detail segments in the mode is as C26 describes:
\* the arc segments between consecutive points of the arc; with them the
\* two radii for PIE, the chord for CHORD, nothing for OPEN and for no mode;
\* the centre as vertex 0 for PIE and for no mode, and then a corner of
\* every face, and no centre otherwise
ArcAsDescribed(mesh, mode, detail) ==
  LET centre == mode = Some("pie") \/ IsUndefined(mode)
      first == IF centre THEN 1 ELSE 0
      segments == {<<first + k, first + k + 1>> : k \in 0..(detail - 1)}
      closing == IF mode = Some("pie") THEN <<(<<0, first>>), (<<0, first + detail>>)>>
                 ELSE IF mode = Some("chord") THEN <<(<<first, first + detail>>)>>
                 ELSE <<>>
  IN /\ Len(mesh.vertices) = first + detail + 1
     /\ \A k \in 1..Len(mesh.vertices) :
          mesh.vertices[k].centre <=> (centre /\ k = 1)
     /\ Len(mesh.strokeIndices) = detail + Len(closing)
     /\ {mesh.strokeIndices[k] : k \in 1..Len(mesh.strokeIndices)}
          = segments \cup {closing[k] : k \in 1..Len(closing)}
     /\ centre =>
          /\ Len(mesh.faces) = detail
          /\ \A k \in 1..detail : mesh.faces[k] = <<0, k, k + 1>>

PointUnder(p, m) ==
  [c \in 1..3 |-> p[1] * m[c] + p[2] * m[4 + c] + p[3] * m[8 + c] + m[12 + c]]

\* the vertex v of a mesh as a point, its coordinates being whole numbers
WholePoint(v) == <<v[1][1], v[2][1], v[3][1]>>

\* C27: after any number of triangle calls one mesh is stored for them,
\* under the key 'tri', built once, with the vertices (0,0), (0,1), (1,0);
\* and the matrix a triangle call draws it under takes (0,0) to the first
\* point of the call, (1,0) to the second and (0,1) to the third, as the
\* transform in force when the call was made places them: the three
\* vertices land on the three points.
TriangleOneMesh ==
  (lastCall.op = "triangle") =>
    LET a == lastCall.args
        m == lastCall.draw[1].uMVMatrix
        mesh == cache[<<"tri">>]
        lands(p, x, y) == PointUnder(p, m) = PointUnder(<<x, y, 0>>, lastCall.before)
    IN /\ DrawnKey = <<"tri">>
       /\ {k \in DOMAIN cache : k[1] = "tri"} = {<<"tri">>}
       /\ created[<<"tri">>] = 1
       /\ mesh.vertices = <<(<<Rat(0, 1), Rat(0, 1), Rat(0, 1)>>),
                            (<<Rat(0, 1), Rat(1, 1), Rat(0, 1)>>),
                            (<<Rat(1, 1), Rat(0, 1), Rat(0, 1)>>)>>
       /\ lands(<<0, 0, 0>>, a.x1, a.y1)
       /\ lands(<<1, 0, 0>>, a.x2, a.y2)
       /\ lands(<<0, 1, 0>>, a.x3, a.y3)
       /\ {PointUnder(WholePoint(mesh.vertices[k]), m) : k \in 1..3}
            = {PointUnder(<<a.x1, a.y1, 0>>, lastCall.before),
               PointUnder(<<a.x2, a.y2, 0>>, lastCall.before),
               PointUnder(<<a.x3, a.y3, 0>>, lastCall.before)}

\* a second triangle call, with the points (3,4), (7,5), (2,9), drew the
\* mesh of the first: its vertex (1,0) lands on (7,5)
SecondTriangleDrawn ==
  /\ lastCall.op = "triangle"
  /\ calls = 2
  /\ ~lastCall.built
  /\ created[<<"tri">>] = 1
  /\ lastCall.args.x2 = 7 /\ lastCall.args.y2 = 5
  /\ PointUnder(WholePoint(cache[<<"tri">>].vertices[3]), lastCall.draw[1].uMVMatrix)
       = <<7, 5, 0>>

(***************************************************************************)
(* The key of the torus                                                    *)
(***************************************************************************)
\* C28: a torus call that draws computes the key of its details and of its
\* ratio tubeRadius/radius rounded to 4 significant digits; it builds a mesh
\* exactly when no earlier call left one under that key, so that calls
\* whose rounded ratios and details agree share one mesh whatever their
\* radii and calls whose rounded ratios differ have entries of their own;
\* the mesh is built from the rounded ratio, and the entries of other keys
\* stay as they were.
TorusSharedByRatio ==
  [][(lastCall'.op = "torus" /\ lastCall'.gId # undefined) =>
       LET d == torusArgs(lastCall'.args)
           key == <<"torus", toPrecision4(d.tubeRadius, d.radius),
                    d.detailX, d.detailY>>
       IN /\ lastCall'.gId = Some(key)
          /\ lastCall'.built <=> key \notin DOMAIN cache
          /\ DOMAIN cache' = DOMAIN cache \cup {key}
          /\ \A k \in DOMAIN cache : cache'[k] = cache[k]
          /\ \A n \in 1..Len(cache'[key].vertices) :
               cache'[key].vertices[n].ratio = key[2]
          /\ lastCall'.draw[1].gId = key
          /\ lastCall'.draw[1].scale = <<d.radius, d.radius, d.radius>>]_vars

\* torus(100000, 30004, 3, 2), of ratio 0.30004, drew the mesh that an
\* earlier call of ratio 0.3 had built under '0.3000'
TorusSharedAfterRounding ==
  /\ lastCall.op = "torus"
  /\ calls = 2
  /\ ~lastCall.built
  /\ lastCall.args.radius = Some(100000)
  /\ lastCall.args.tubeRadius = Some(30004)
  /\ DrawnKey = <<"torus", <<1, 3000, -1>>, 3, 2>>
  /\ created[DrawnKey] = 1
  /\ Cardinality({k \in DOMAIN cache : k[1] = "torus"}) = 1

(***************************************************************************)
(* The winding of the faces                                                *)
(***************************************************************************)
\* the sign of n
Sign(n) == IF n > 0 THEN 1 ELSE IF n < 0 THEN -1 ELSE 0

\* the corner of the box at index i, in half units: (+-1, +-1, +-1)
BoxCorner(mesh, i) ==
  [c \in 1..3 |-> (2 * At(mesh.vertices, i)[c][1]) \div At(mesh.vertices, i)[c][2]]

\* the cross product of the edge vectors p1 - p0 and p2 - p0 of the box
\* face f, taken in index order
BoxCross(mesh, f) ==
  LET p0 == BoxCorner(mesh, f[1])
      a == [c \in 1..3 |-> BoxCorner(mesh, f[2])[c] - p0[c]]
      b == [c \in 1..3 |-> BoxCorner(mesh, f[3])[c] - p0[c]]
  IN <<a[2] * b[3] - a[3] * b[2], a[3] * b[1] - a[1] * b[3],
       a[1] * b[2] - a[2] * b[1]>>

\* the axes along which the three corners of the box face f have the same
\* coordinate: the axis of the side of the cube the face lies in
BoxFaceAxes(mesh, f) ==
  {c \in 1..3 : /\ BoxCorner(mesh, f[1])[c] = BoxCorner(mesh, f[2])[c]
                /\ BoxCorner(mesh, f[1])[c] = BoxCorner(mesh, f[3])[c]}

\* the sign of sin(2 pi (a - b)) for the fractions a and b of a turn
SinSign(a, b) ==
  LET d == a[2] * b[2]
      n == (a[1] * b[2] - b[1] * a[2]) % d
  IN IF n = 0 \/ 2 * n = d THEN 0 ELSE IF 2 * n < d THEN 1 ELSE -1

\* the sign of the triple product p0 . (p1 x p2) of the corners of face f
\* of a truncated cone, each at (r sin(2 pi u), y, r cos(2 pi u)); it is
\* sin(2 pi/detailX) times
\*   y1 r0 r2 sg(u0 - u2) + y2 r0 r1 sg(u1 - u0) + y0 r1 r2 sg(u2 - u1)
\* when the corners off the axis lie on two neighbouring angles, and it is
\* positive exactly when the cross product of the edge vectors, in index
\* order, points away from the centre of the solid
ConeTurn(mesh, f) ==
  LET p0 == At(mesh.vertices, f[1])
      p1 == At(mesh.vertices, f[2])
      p2 == At(mesh.vertices, f[3])
      t(ya, pb, pc) ==
        Rat(SinSign(pb.u, pc.u) * ya.y[1] * pb.r[1] * pc.r[1],
            ya.y[2] * pb.r[2] * pc.r[2])
      plus(a, b) == Rat(a[1] * b[2] + b[1] * a[2], a[2] * b[2])
  IN Sign(plus(plus(t(p1, p0, p2), t(p2, p1, p0)), t(p0, p2, p1))[1])

\* the angles of the corners of face f that are off the axis
ConeAngles(mesh, f) ==
  {At(mesh.vertices, f[c]).u : c \in {c \in 1..3 : At(mesh.vertices, f[c]).r[1] # 0}}

\* C29: the faces of a box and of a cylinder or cone wind outwards: for
\* each of the 12 triangles of the box the cross product of its two edge
\* vectors, in index order, is along the axis of the side it lies in and
\* points away from the centre; in a cylinder or a cone every triangle (of
\* the bottom fan, of the side, of the top fan) lies over two neighbouring
\* angles of the ring and the cross product of its edge vectors points
\* away from the centre of the solid.
WindingOutward ==
  (lastCall.op \in {"box", "cylinder", "cone"} /\ lastCall.gId # undefined) =>
    \A mesh \in {cache[DrawnKey]} :
      IF lastCall.op = "box"
      THEN /\ Len(mesh.faces) = 12
           /\ \A n \in 1..12 :
                \E c \in 1..3 :
                  /\ BoxFaceAxes(mesh, mesh.faces[n]) = {c}
                  /\ \A o \in (1..3) \ {c} : BoxCross(mesh, mesh.faces[n])[o] = 0
                  /\ BoxCross(mesh, mesh.faces[n])[c]
                       * BoxCorner(mesh, mesh.faces[n][1])[c] > 0
      ELSE /\ Len(mesh.faces) >= 3
           /\ \A n \in 1..Len(mesh.faces) :
                /\ Cardinality(ConeAngles(mesh, mesh.faces[n])) = 2
                /\ ConeTurn(mesh, mesh.faces[n]) = 1

\* a capped cone of 3 by 2 is stored: the first triangle of its bottom fan
\* is (0, 2, 1), a side triangle is (4, 5, 8) and the last triangle joins
\* the ring 7, 8, 9 to the apex 10, each turning outwards
ConeWoundOutward ==
  /\ lastCall.op = "cone"
  /\ lastCall.built
  /\ Len(cache[DrawnKey].vertices) = 11
  /\ cache[DrawnKey].faces[1] = <<0, 2, 1>>
  /\ \E n \in 1..Len(cache[DrawnKey].faces) : cache[DrawnKey].faces[n] = <<4, 5, 8>>
  /\ cache[DrawnKey].faces[12] = <<9, 7, 10>>
  /\ \A n \in {1, 12} : ConeTurn(cache[DrawnKey], cache[DrawnKey].faces[n]) = 1

(***************************************************************************)
(* The end of the tokenizer of loadTable                                   *)
(***************************************************************************)
\* the character the next iteration reads is past the end of the text
EndOfInput == table.offset >= Len(table.resp)

\* C30: the tokenizer of loadTable ends on every text.  Each iteration
\* moves the read offset forward, and the loop is never entered with the
\* offset more than one past the end of the text.  An iteration that reads
\* past the end throws exactly when a quoted field is open ('Unclosed quote
\* in file.'); otherwise, with a record open, it closes the token and the
\* record and leaves the loop; otherwise (the empty text, or a text that
\* ends with a line terminator) it opens a record, which the next iteration
\* closes.  No iteration before the end of the text throws or leaves the
\* loop, and a loop that has started always comes to one of the two ends.
TokenizerTerminates ==
  /\ [][table.pc = "loop" => table'.offset > table.offset]_vars
  /\ [](table.pc = "loop" => table.offset <= Len(table.resp) + 1)
  /\ [][(table.pc = "loop" /\ EndOfInput) =>
          /\ (table'.pc = "threw") <=> table.escaped
          /\ table'.pc = "threw" => table'.error = "Unclosed quote in file."
          /\ (~table.escaped /\ table.currentRecord # undefined) =>
               /\ table'.pc = "done"
               /\ table'.currentRecord = undefined
               /\ table'.token = <<>>
               /\ Len(table'.records) + (IF table.header THEN 1 ELSE 0)
                    = Len(table.records) + 1
          /\ (~table.escaped /\ table.currentRecord = undefined) =>
               /\ table'.pc = "loop"
               /\ table'.currentRecord # undefined
               /\ ~table'.escaped]_vars
  /\ [][(table.pc = "loop" /\ ~EndOfInput) => table'.pc = "loop"]_vars
  /\ (table.pc = "loop") ~> (table.pc \in {"done", "threw"})

\* the text of one record and its line terminator has been read: the loop
\* went twice past the end, and left a record of the token 'undefined'
\* after the record of the text
TerminatedLineRead ==
  /\ table.pc = "done"
  /\ table.resp = <<"a", "\n">>
  /\ table.offset = 4
  /\ table.records = <<(<< <<"a">> >>), (<< <<"undefined">> >>)>>
  /\ table.currentRecord = undefined

====
